---------------------------- MODULE Spec2Model ----------------------------
(***************************************************************************)
(* A state-machine model of the PayPal daily load pipeline:                *)
(*   scripts/transform.py          PayPalTransactionParser                 *)
(*   scripts/utils.py              retry_on_failure, validate_transaction_data *)
(*   scripts/fetch_transactions.py PayPalTransactionFetcher                *)
(*   dags/paypal_dag.py            the extract / transform / load tasks    *)
(***************************************************************************)
EXTENDS Integers, Sequences, FiniteSets, TLC

VARIABLES
    \* ---- PayPalTransactionParser (transform.py) ----
    raw_transactions,     \* raw_data['transactions'] handed to parse_transactions
    parse_pc,             \* "ready" | "parsing" | "returned" | "raised"
    parse_i,              \* index of the next record of the for loop (1-based)
    parsed_transactions,  \* the list parse_transactions builds and returns
    parsing_errors,       \* self.parsing_errors
    validation_errors,    \* self.validation_errors
    statistics,           \* what the last generate_statistics call returned
    \* ---- the clock and the token endpoint ----
    now,                  \* datetime.now(), in whole seconds
    srv_expires_in,       \* the "expires_in" the token endpoint states (JSON)
    \* ---- PayPalTransactionFetcher (fetch_transactions.py) ----
    access_token,         \* self.access_token: 0 is None, else the token
    token_expires_at,     \* self.token_expires_at: -1 is None, else a time
    \* ---- one get_access_token call under retry_on_failure (utils.py) ----
    tok_pc,               \* "idle" | "attempt" | "returned" | "raised"
    attempt,              \* the wrapper's loop variable
    current_delay,        \* the wrapper's current_delay
    last_exception,       \* the wrapper's last_exception: 0 is None, else the
                          \* number of the attempt that raised it
    exchanges,            \* POSTs to the token endpoint made by this call
    slept,                \* the delays this call has slept, in order
    tok_result,           \* the token returned (or the exception raised)
    \* ---- the transaction source behind the reporting API ----
    src_pages,            \* the number of pages k the source holds
    src_short_len,        \* the number of records of its last, short page
    src_last_next,        \* whether the last page still advertises a next link
    \* ---- one fetch_transactions call ----
    page_size,            \* the page_size argument
    fetch_pc,             \* "idle" | "token" | "done"
    page,                 \* page
    all_transactions,     \* all_transactions, one entry per page added
    last_request,         \* the page of the last GET issued (0: none yet)
    req_in_order,         \* every GET so far was for the page after the last
    all_200,              \* every GET so far was answered 200 and no
                          \* get_access_token call raised
    last_status,          \* the last answer: a status, -1 for an exception
                          \* of the GET, -2 for one of get_access_token
    auth_p1,              \* 401/403 answers received for page 1 (at most 2
                          \* are counted)
    \* ---- one run of the DAG paypal_data_pipeline (paypal_dag.py) ----
    fetcher_importable,   \* "from fetch_transactions import ..." succeeds
    parser_importable,    \* "from transform import ..." succeeds
    src_record,           \* the raw record the source holds (in every slot)
    task_state,           \* task id -> "none" | "running" | "up_for_retry" |
                          \* "success" | "failed" | "upstream_failed"
    try_number,           \* task id -> attempts started
    raw_file,             \* /tmp/paypal_raw_<date>.json
    parsed_file,          \* /tmp/paypal_parsed_<date>.jsonl
    extraction_results,   \* XCom extraction_results
    transformation_results, \* XCom transformation_results
    load_results,         \* XCom load_results
    summary,              \* the summary send_completion_notification prints
    normalized_count,     \* records the last parse_transactions call of the
                          \* transform task returned (-1: it returned nothing)
    quality_check_rows,   \* rows data_quality_check counted (-1: no file)
    \* ---- BigQueryLoader (load_to_bq.py) and one validate_data call ----
    sink,                 \* the rows of the table the checks are scoped to:
                          \* their number, the number of distinct non-null
                          \* transaction_ids and the number of null ones
    date_filter,          \* the date_filter argument (JSON: null, "" or a date)
    failing_check,        \* the check whose query the sink refuses ("none")
    val_pc,               \* "idle" | "checks" | "scores" | "returned" | "raised"
    val_i,                \* the position of the next check in the loop
    val_results           \* results

parserVars == <<raw_transactions, parse_pc, parse_i, parsed_transactions,
                parsing_errors, validation_errors, statistics>>

tokenVars == <<now, srv_expires_in, access_token, token_expires_at, tok_pc,
               attempt, current_delay, last_exception, exchanges, slept,
               tok_result>>

fetchVars == <<src_pages, src_short_len, src_last_next, page_size, fetch_pc,
               page, all_transactions, last_request, req_in_order, all_200,
               last_status, auth_p1>>

dagEnv == <<fetcher_importable, parser_importable, src_record>>

dagVars == <<dagEnv, task_state, try_number, raw_file, parsed_file,
             extraction_results, transformation_results, load_results, summary,
             normalized_count, quality_check_rows>>

loaderVars == <<sink, date_filter, failing_check, val_pc, val_i, val_results>>

vars == <<parserVars, tokenVars, fetchVars, dagVars, loaderVars>>

nonParserVars == <<tokenVars, fetchVars, dagVars, loaderVars>>
nonTokenVars == <<parserVars, fetchVars, dagVars, loaderVars>>
nonFetchVars == <<parserVars, dagVars, loaderVars>>
nonLoaderVars == <<parserVars, tokenVars, fetchVars, dagVars>>

(***************************************************************************)
(* JSON values as Python sees them after json.load.  Every value is a      *)
(* record tagged by k; a mapping carries one field per key the code reads, *)
(* a key that is not in the mapping holding Absent.                        *)
(***************************************************************************)
Absent == [k |-> "absent"]
Null == [k |-> "null"]
Str(s) == [k |-> "str", s |-> s]
\* a JSON number, in hundredths (Num(1250) is the number 12.5)
Num(c) == [k |-> "num", c |-> c]
List(items) == [k |-> "list", items |-> items]
EmptyMap == [k |-> "map"]

IsMap(v) == v.k = "map"
IsStr(v) == v.k = "str"

\* the keys a mapping holds
Keys(v) == {f \in (DOMAIN v) \ {"k"} : v[f] # Absent}

\* Python truthiness: None, "", 0, [] and {} are false
Truthy(v) ==
    CASE v.k = "null" -> FALSE
      [] v.k = "str" -> v.s # ""
      [] v.k = "num" -> v.c # 0
      [] v.k = "list" -> v.items # <<>>
      [] v.k = "map" -> Keys(v) # {}
      [] OTHER -> FALSE

\* dict.get(key, default) on a value known to be a mapping
Get(v, key, default) == IF key \in Keys(v) THEN v[key] ELSE default

\* x.get(...) raises AttributeError unless x is a dict
GetRaises(v) == ~IsMap(v)

(***************************************************************************)
(* Python floats, in hundredths, with the two non-finite values float()    *)
(* accepts from a string.                                                  *)
(***************************************************************************)
Fin(c) == [k |-> "fin", c |-> c]

\* a percentage as the exact fraction num / den of the value the floats
\* approximate
Score(num, den) == [num |-> num, den |-> den]
NaN == [k |-> "nan"]
Inf == [k |-> "inf"]

\* a - b
FSub(a, b) ==
    CASE a.k = "nan" \/ b.k = "nan" -> NaN
      [] a.k = "inf" /\ b.k = "inf" -> NaN
      [] a.k = "inf" -> Inf
      [] b.k = "inf" -> [k |-> "ninf"]
      [] OTHER -> Fin(a.c - b.c)

\* a + b
FAdd(a, b) ==
    CASE a.k = "nan" \/ b.k = "nan" -> NaN
      [] a.k \in {"inf", "ninf"} /\ b.k \in {"inf", "ninf"} ->
            IF a.k = b.k THEN a ELSE NaN
      [] a.k \in {"inf", "ninf"} -> a
      [] b.k \in {"inf", "ninf"} -> b
      [] OTHER -> Fin(a.c + b.c)

\* a == b : NaN equals nothing, itself included
FEq(a, b) == a.k # "nan" /\ b.k # "nan" /\ a = b

\* a < 0
FNegative(a) == a.k = "ninf" \/ (a.k = "fin" /\ a.c < 0)

\* f"{n:02d}" and f"{x:.2f}" for a non-negative x given in hundredths
two(n) == IF n < 10 THEN "0" \o ToString(n) ELSE ToString(n)
fmt2(c) == ToString(c \div 100) \o "." \o two(c % 100)

\* the amounts, in hundredths, whose decimal strings the model draws: 0.25
\* and the amounts and fees of the 25 mock records
DrawnCents == {25} \cup {i * 1250 : i \in 1..25} \cup {i * 50 : i \in 1..25}

\* float(s) for a str: the strings the model draws; any other raises ValueError
ValueError == [k |-> "ValueError"]
float_of_str(s) ==
    CASE s = "nan" -> NaN
      [] s = "inf" -> Inf
      [] s = "-5.00" -> Fin(-500)
      [] \E c \in DrawnCents : s = fmt2(c) ->
            Fin(CHOOSE c \in DrawnCents : s = fmt2(c))
      [] OTHER -> ValueError

\* PayPalTransactionParser._safe_float
safe_float(value) ==
    CASE value.k = "null" -> Fin(0)
      [] value.k = "num" -> Fin(value.c)
      [] value.k = "str" ->
            IF float_of_str(value.s) = ValueError THEN Fin(0)
            ELSE float_of_str(value.s)
      [] OTHER -> Fin(0)        \* float(list) / float(dict): TypeError

\* the day of the run's date range, and the half hours of that day in
\* ISO-8601 with a zero offset
StartDate == "2025-07-30"
Hours == 0..23
iso_at(h) == StartDate \o "T" \o two(h) \o ":30:00+00:00"

\* days a run may be about, and the UTC offsets a timestamp may carry, with
\* the minutes each offset stands for
Dates == {"2025-07-30", "2024-02-29", "2025-12-31", "2025-01-01"}
Offsets == {"+00:00", "-07:00", "+02:00"}
offset_minutes(off) ==
    CASE off = "+00:00" -> 0
      [] off = "-07:00" -> -420
      [] off = "+02:00" -> 120

\* the days counted from 2024-01-01: the order of their strings
day_number(d) ==
    CASE d = "2024-02-29" -> 59
      [] d = "2025-01-01" -> 366
      [] d = "2025-07-30" -> 576
      [] d = "2025-07-31" -> 577
      [] d = "2025-12-31" -> 730

\* the half hour h of day d at offset off in ISO-8601
iso(d, h, off) == d \o "T" \o two(h) \o ":30:00" \o off

\* datetime.fromisoformat(s).strftime('%Y-%m-%d %H:%M:%S UTC') for a str:
\* the formatted wall-clock fields, or ValueError
iso_to_bq(s) ==
    CASE \E h \in Hours : s = iso_at(h) ->
            Str(StartDate \o " " \o two(CHOOSE h \in Hours : s = iso_at(h)) \o ":30:00 UTC")
      [] \E d \in Dates, h \in Hours, off \in Offsets : s = iso(d, h, off) ->
            LET f == CHOOSE f \in Dates \X Hours :
                        \E off \in Offsets : s = iso(f[1], f[2], off)
            IN Str(f[1] \o " " \o two(f[2]) \o ":30:00 UTC")
      [] s = "2025-07-31T09:00:00+00:00" -> Str("2025-07-31 09:00:00 UTC")
      [] OTHER -> ValueError

\* str.replace('Z', '+00:00')
replace_Z(s) ==
    CASE s = "2025-07-30T10:30:00Z" -> "2025-07-30T10:30:00+00:00"
      [] OTHER -> s

\* PayPalTransactionParser._parse_timestamp: None (Null) or the formatted string
parse_timestamp(date_str) ==
    IF ~Truthy(date_str) THEN Null
    ELSE IF ~IsStr(date_str) THEN Null      \* .replace raises, caught
    ELSE IF iso_to_bq(replace_Z(date_str.s)) = ValueError THEN Null
    ELSE iso_to_bq(replace_Z(date_str.s))


(***************************************************************************)
(* utils.validate_transaction_data on a parsed record.                     *)
(***************************************************************************)
ValidStatuses == {"P", "S", "D", "V", "F",
                  "Pending", "Success", "Denied", "Reversed", "Failed"}

\* len(x): TypeError for a number
len_raises(v) == v.k = "num"
len_of(v) ==
    CASE v.k = "str" -> Len(v.s)
      [] v.k = "list" -> Len(v.items)
      [] v.k = "map" -> Cardinality(Keys(v))
      [] OTHER -> 0

\* the only statement of validate_transaction_data that can raise:
\* len(transaction['currency_code']) of a truthy value without a length
validate_raises(parsed) ==
    Truthy(parsed.currency_code) /\ len_raises(parsed.currency_code)

\* the list of errors validate_transaction_data returns
validate_transaction_data(parsed) ==
    (IF ~Truthy(parsed.transaction_id)
        THEN <<"Missing required field: transaction_id">> ELSE <<>>)
    \o (IF FNegative(parsed.amount)
        THEN <<"Amount cannot be negative">> ELSE <<>>)
    \o (IF Truthy(parsed.transaction_date) /\ ~IsStr(parsed.transaction_date)
        THEN <<"Transaction date must be a string">> ELSE <<>>)
    \o (IF /\ Truthy(parsed.transaction_status)
           /\ ~(/\ IsStr(parsed.transaction_status)
                /\ parsed.transaction_status.s \in ValidStatuses)
        THEN <<"Invalid transaction status">> ELSE <<>>)
    \o (IF /\ Truthy(parsed.currency_code)
           /\ ~len_raises(parsed.currency_code)
           /\ len_of(parsed.currency_code) # 3
        THEN <<"Currency code must be 3 characters">> ELSE <<>>)

(***************************************************************************)
(* The helpers of PayPalTransactionParser.parse_transaction.  For each,    *)
(* x_raises says whether the helper raises and x gives its value when it   *)
(* does not.                                                               *)
(***************************************************************************)
\* _get_full_name: '' for a falsy name_obj, else the parts that are truthy
get_full_name_raises(name_obj) == Truthy(name_obj) /\ GetRaises(name_obj)
get_full_name(name_obj) ==
    IF ~Truthy(name_obj) THEN <<>>
    ELSE (IF Truthy(Get(name_obj, "given_name", Null))
             THEN <<Get(name_obj, "given_name", Null)>> ELSE <<>>)
         \o (IF Truthy(Get(name_obj, "surname", Null))
             THEN <<Get(name_obj, "surname", Null)>> ELSE <<>>)

\* _format_address: '' for a falsy address_obj, else its truthy parts in order
AddressFields == <<"address_line_1", "address_line_2", "admin_area_2",
                   "admin_area_1", "postal_code", "country_code">>
format_address_raises(address_obj) == Truthy(address_obj) /\ GetRaises(address_obj)
format_address(address_obj) ==
    IF ~Truthy(address_obj) THEN <<>>
    ELSE LET part(i) == Get(address_obj, AddressFields[i], Null)
             RECURSIVE parts(_)
             parts(i) == IF i > Len(AddressFields) THEN <<>>
                         ELSE (IF Truthy(part(i)) THEN <<part(i)>> ELSE <<>>)
                              \o parts(i + 1)
         IN parts(1)

\* _extract_payment_method: tracking_info[0].get(...) when the list is non-empty
extract_payment_method_raises(transaction_info) ==
    LET tracking_info == Get(transaction_info, "payment_tracking_info", List(<<>>))
    IN /\ Truthy(tracking_info)
       /\ tracking_info.k = "list"
       /\ GetRaises(tracking_info.items[1])
extract_payment_method(transaction_info) ==
    LET tracking_info == Get(transaction_info, "payment_tracking_info", List(<<>>))
    IN IF Truthy(tracking_info) /\ tracking_info.k = "list"
       THEN Get(tracking_info.items[1], "payment_method", Str(""))
       ELSE Str("")

\* _extract_store_info
extract_store_info_raises(transaction_info) ==
    LET store_info == Get(transaction_info, "store_info", EmptyMap)
    IN Truthy(store_info) /\ GetRaises(store_info)
extract_store_info(transaction_info) ==
    LET store_info == Get(transaction_info, "store_info", EmptyMap)
    IN IF Truthy(store_info) THEN Get(store_info, "store_id", Str("")) ELSE Str("")

\* what "for item in items" iterates over: the elements of a list, the
\* characters of a str, the keys of a dict (both strings, shown as Str("c"))
iter_items(items) ==
    CASE items.k = "list" -> items.items
      [] items.k = "str" -> [i \in 1..Len(items.s) |-> Str("c")]
      [] items.k = "map" -> [i \in 1..Cardinality(Keys(items)) |-> Str("c")]
      [] OTHER -> <<>>

\* the value of one money sub-field of an item: item.get(f, {}).get('value')
\* if item.get(f) else 0
item_money_raises(item, f) ==
    Truthy(Get(item, f, Null)) /\ GetRaises(Get(item, f, EmptyMap))
item_money(item, f) ==
    IF Truthy(Get(item, f, Null))
    THEN safe_float(Get(Get(item, f, EmptyMap), "value", Null))
    ELSE Fin(0)

\* _parse_items
parse_items_raises(items) ==
    \/ items.k \in {"null", "num"}          \* not iterable
    \/ \E i \in 1..Len(iter_items(items)) :
          LET item == iter_items(items)[i]
          IN \/ GetRaises(item)
             \/ item_money_raises(item, "item_unit_price")
             \/ item_money_raises(item, "item_amount")
parse_items(items) ==
    [i \in 1..Len(iter_items(items)) |->
        LET item == iter_items(items)[i]
        IN [item_name |-> Get(item, "item_name", Str("")),
            item_quantity |-> Get(item, "item_quantity", Str("0")),
            item_unit_price |-> item_money(item, "item_unit_price"),
            item_amount |-> item_money(item, "item_amount")]]

(***************************************************************************)
(* PayPalTransactionParser.parse_transaction.                              *)
(***************************************************************************)
\* the four groups as the first four statements of the try block read them
group(transaction, name) == Get(transaction, name, EmptyMap)

\* fee_value: _safe_float(fee_info.get('value', 0)) if fee_info else 0
fee_value(fee_info) ==
    IF Truthy(fee_info) THEN safe_float(Get(fee_info, "value", Num(0)))
    ELSE Fin(0)

\* net_amount of the parsed record
net_amount(amount_value, fee) == FSub(amount_value, fee)

\* whether the body of the try block raises (any exception: the handler is
\* "except Exception")
try_raises(transaction) ==
    \/ GetRaises(transaction)
    \/ LET transaction_info == group(transaction, "transaction_info")
           payer_info == group(transaction, "payer_info")
           shipping_info == group(transaction, "shipping_info")
           cart_info == group(transaction, "cart_info")
           amount_info == Get(transaction_info, "transaction_amount", EmptyMap)
           fee_info == Get(transaction_info, "fee_amount", EmptyMap)
       IN \/ GetRaises(transaction_info)
          \/ GetRaises(amount_info)
          \/ (Truthy(fee_info) /\ GetRaises(fee_info))
          \/ GetRaises(payer_info)
          \/ get_full_name_raises(Get(payer_info, "payer_name", EmptyMap))
          \/ extract_payment_method_raises(transaction_info)
          \/ extract_store_info_raises(transaction_info)
          \/ GetRaises(shipping_info)
          \/ get_full_name_raises(Get(shipping_info, "name", EmptyMap))
          \/ format_address_raises(Get(shipping_info, "address", EmptyMap))
          \/ /\ Truthy(cart_info)
             /\ \/ GetRaises(cart_info)
                \/ parse_items_raises(Get(cart_info, "item_details", List(<<>>)))
          \/ validate_raises(
                [currency_code |-> Get(amount_info, "currency_code", Str("USD"))])

\* the dict the try block builds (lines 89-130), when it does not raise
parsed_record(transaction) ==
    LET transaction_info == group(transaction, "transaction_info")
        payer_info == group(transaction, "payer_info")
        shipping_info == group(transaction, "shipping_info")
        cart_info == group(transaction, "cart_info")
        amount_info == Get(transaction_info, "transaction_amount", EmptyMap)
        amount_value == safe_float(Get(amount_info, "value", Num(0)))
        fee == fee_value(Get(transaction_info, "fee_amount", EmptyMap))
    IN [transaction_id |-> Get(transaction_info, "transaction_id", Str("")),
        transaction_status |-> Get(transaction_info, "transaction_status", Str("")),
        invoice_id |-> Get(transaction_info, "invoice_id", Str("")),
        amount |-> amount_value,
        currency_code |-> Get(amount_info, "currency_code", Str("USD")),
        fee_amount |-> fee,
        net_amount |-> net_amount(amount_value, fee),
        transaction_date |->
            parse_timestamp(Get(transaction_info, "transaction_initiation_date", Str(""))),
        updated_date |->
            parse_timestamp(Get(transaction_info, "transaction_updated_date", Str(""))),
        payer_email |-> Get(payer_info, "email_address", Str("")),
        payer_name |-> get_full_name(Get(payer_info, "payer_name", EmptyMap)),
        payer_country |-> Get(payer_info, "country_code", Str("")),
        payment_method |-> extract_payment_method(transaction_info),
        store_info |-> extract_store_info(transaction_info),
        shipping_method |-> Get(shipping_info, "method", Str("")),
        shipping_name |-> get_full_name(Get(shipping_info, "name", EmptyMap)),
        shipping_address |-> format_address(Get(shipping_info, "address", EmptyMap)),
        item_count |->
            IF Truthy(cart_info)
            THEN Len(iter_items(Get(cart_info, "item_details", List(<<>>))))
            ELSE 0,
        items |->
            IF Truthy(cart_info)
            THEN parse_items(Get(cart_info, "item_details", List(<<>>)))
            ELSE <<>>]

\* the except block (lines 144-152) evaluates
\* transaction.get('transaction_info', {}).get('transaction_id', 'UNKNOWN')
\* before it records anything: it raises again when either .get has no dict
handler_raises(transaction) ==
    \/ GetRaises(transaction)
    \/ GetRaises(group(transaction, "transaction_info"))

\* the entry the except block appends to self.parsing_errors
parse_failure(transaction) ==
    [transaction_id |->
        Get(group(transaction, "transaction_info"), "transaction_id", Str("UNKNOWN")),
     transaction |-> transaction]

\* the outcome of one parse_transaction call:
\*   "ok"      the parsed dict is returned (findings: the validation errors)
\*   "failure" None is returned and a ParseFailure is recorded
\*   "raise"   an exception leaves parse_transaction
parse_transaction(transaction) ==
    IF ~try_raises(transaction)
    THEN [out |-> "ok", parsed |-> parsed_record(transaction),
          findings |-> validate_transaction_data(parsed_record(transaction))]
    ELSE IF ~handler_raises(transaction)
    THEN [out |-> "failure", failure |-> parse_failure(transaction)]
    ELSE [out |-> "raise"]

(***************************************************************************)
(* PayPalTransactionParser.parse_transactions, one action per step of its  *)
(* loop.                                                                   *)
(***************************************************************************)
\* lines 237-246: an empty batch returns [] at once
parse_transactions_begin ==
    /\ parse_pc = "ready"
    /\ parse_pc' = IF Len(raw_transactions) = 0 THEN "returned" ELSE "parsing"
    /\ parse_i' = 1
    /\ parsed_transactions' = <<>>
    /\ UNCHANGED <<raw_transactions, parsing_errors, validation_errors>>
    /\ UNCHANGED statistics
    /\ UNCHANGED nonParserVars

\* lines 247-253: one iteration of "for i, transaction in enumerate(...)"
parse_transactions_step ==
    /\ parse_pc = "parsing"
    /\ parse_i <= Len(raw_transactions)
    /\ LET r == parse_transaction(raw_transactions[parse_i])
       IN /\ parse_pc' = IF r.out = "raise" THEN "raised" ELSE "parsing"
          /\ parse_i' = IF r.out = "raise" THEN parse_i ELSE parse_i + 1
          /\ parsed_transactions' =
                IF r.out = "ok" THEN Append(parsed_transactions, r.parsed)
                ELSE parsed_transactions
          /\ parsing_errors' =
                IF r.out = "failure" THEN Append(parsing_errors, r.failure)
                ELSE parsing_errors
          /\ validation_errors' =
                IF r.out = "ok" /\ r.findings # <<>>
                THEN Append(validation_errors,
                            [transaction_id |-> r.parsed.transaction_id,
                             errors |-> r.findings])
                ELSE validation_errors
    /\ UNCHANGED raw_transactions
    /\ UNCHANGED statistics
    /\ UNCHANGED nonParserVars

\* lines 255-264: the loop is over, the list is returned
parse_transactions_return ==
    /\ parse_pc = "parsing"
    /\ parse_i > Len(raw_transactions)
    /\ parse_pc' = "returned"
    /\ UNCHANGED <<raw_transactions, parse_i, parsed_transactions,
                   parsing_errors, validation_errors>>
    /\ UNCHANGED statistics
    /\ UNCHANGED nonParserVars

NoStatistics == [k |-> "none"]

\* lines 347-353: a status or currency that cannot be a dict key raises
\* TypeError
statistics_raises(parsed) ==
    \E i \in 1..Len(parsed) :
        \/ parsed[i].transaction_status.k \in {"list", "map"}
        \/ parsed[i].currency_code.k \in {"list", "map"}

\* line 364: date.split(' ')[0] of a formatted date
date_key(s) ==
    IF s = "2025-07-31 09:00:00 UTC" THEN "2025-07-31"
    ELSE CHOOSE d \in Dates : \E h \in Hours : s = d \o " " \o two(h) \o ":30:00 UTC"

\* lines 366-371: the entry of a day not seen before
NoDay == [count |-> 0, total_amount |-> Fin(0), total_fee |-> Fin(0),
          net_amount |-> Fin(0)]

\* lines 362-375: daily_data after one more record
add_day(daily, record) ==
    IF ~Truthy(record.transaction_date) THEN daily
    ELSE LET key == date_key(record.transaction_date.s)
             old == IF key \in DOMAIN daily THEN daily[key] ELSE NoDay
         IN [d \in (DOMAIN daily) \cup {key} |->
                IF d = key
                THEN [count |-> old.count + 1,
                      total_amount |-> FAdd(old.total_amount, record.amount),
                      total_fee |-> FAdd(old.total_fee, record.fee_amount),
                      net_amount |-> FAdd(old.net_amount, record.net_amount)]
                ELSE daily[d]]

\* lines 344-375: daily_data after the loop over the first n records
RECURSIVE daily_data(_, _)
daily_data(parsed, n) ==
    IF n = 0 THEN [d \in {} |-> NoDay]
    ELSE add_day(daily_data(parsed, n - 1), parsed[n])

\* an order that puts the later day first
key_after(a, b) == day_number(a) > day_number(b)

\* the order of sorted() on the date keys (line 383)
key_before(a, b) == day_number(a) < day_number(b)

\* line 383: dict(sorted(daily_data.items())): the keys in the order of the
\* dict, and the entries
daily_summary(daily) ==
    [keys |-> CHOOSE keys \in [1..Cardinality(DOMAIN daily) -> DOMAIN daily] :
                  \A i, j \in DOMAIN keys : i < j => key_before(keys[i], keys[j]),
     days |-> daily]

\* lines 333-334: len(parsed) / (len(parsed) + len(parsing_errors)) * 100
success_rate(normalized, failures) == Score(normalized * 100, normalized + failures)

\* generate_statistics (lines 323-401): the error for an empty list, else the
\* summary
generate_statistics(parsed, errors, findings) ==
    IF parsed = <<>> THEN [k |-> "error", error |-> "No transactions to analyze"]
    ELSE IF statistics_raises(parsed) THEN [k |-> "raise"]
    ELSE [k |-> "stats",
          total_transactions |-> Len(parsed),
          parsing_errors |-> Len(errors),
          validation_errors |-> Len(findings),
          success_rate |-> success_rate(Len(parsed), Len(errors)),
          daily_summary |-> daily_summary(daily_data(parsed, Len(parsed)))]

\* generate_statistics called on the list parse_transactions returned
generate_statistics_call ==
    /\ parse_pc = "returned"
    /\ statistics = NoStatistics
    /\ statistics' = generate_statistics(parsed_transactions, parsing_errors,
                                         validation_errors)
    /\ UNCHANGED <<raw_transactions, parse_pc, parse_i, parsed_transactions,
                   parsing_errors, validation_errors>>
    /\ UNCHANGED nonParserVars

(***************************************************************************)
(* PayPalTransactionFetcher.get_access_token under                         *)
(* @retry_on_failure(max_retries=3, delay=5).                              *)
(***************************************************************************)
max_retries == 3
delay == 5
backoff == 2
DefaultExpiresIn == 3600
SafetyMargin == 60

\* the clock stops counting here
MaxTime == 40

Min(a, b) == IF a < b THEN a ELSE b

\* time.sleep(d), and the clock's other advances
advance(t, d) == Min(t + d, MaxTime)

JInt(n) == [k |-> "int", n |-> n]

\* token_data.get("expires_in", 3600)
expires_in(token_data_field) ==
    IF token_data_field = Absent THEN DefaultExpiresIn ELSE token_data_field.n

\* the expiry kept without the margin
expires_at_no_margin(t, e) == t + e

\* line 68: datetime.now() + timedelta(seconds=expires_in - 60)
expires_at(t, e) == t + e - SafetyMargin

\* line 43: the cached token is used
cache_valid ==
    access_token # 0 /\ token_expires_at # -1 /\ now < token_expires_at

\* the token endpoint issues a token named after its time of issue
issued_token(t) == t + 1
issue_time(token) == token - 1

\* line 109: the last attempt of the wrapper's loop
is_last_attempt(a) == a = max_retries

\* a delay that grows by the initial delay instead of doubling
next_delay_linear(d) == d + delay

\* line 117: current_delay *= backoff
next_delay(d) == d * backoff

\* lines 101-102: the wrapper is entered
enter_get_access_token ==
    /\ tok_pc' = "attempt"
    /\ attempt' = 0
    /\ current_delay' = delay
    /\ last_exception' = 0
    /\ exchanges' = 0
    /\ slept' = <<>>
    /\ tok_result' = 0

\* one pass of the wrapper's loop (lines 104-119) around the body of
\* get_access_token (lines 43-72); exchange_ok is the token endpoint's answer:
\* 200 with a body, or anything else (a non-200 status, a transport error)
get_access_token_attempt(exchange_ok) ==
    /\ tok_pc = "attempt"
    /\ IF cache_valid
       THEN /\ tok_pc' = "returned"
            /\ tok_result' = access_token
            /\ UNCHANGED <<now, access_token, token_expires_at, attempt,
                           current_delay, last_exception, exchanges, slept>>
       ELSE /\ exchanges' = exchanges + 1
            /\ IF exchange_ok
               THEN /\ access_token' = issued_token(now)
                    /\ token_expires_at' = expires_at(now, expires_in(srv_expires_in))
                    /\ tok_pc' = "returned"
                    /\ tok_result' = issued_token(now)
                    /\ UNCHANGED <<now, attempt, current_delay, last_exception, slept>>
               ELSE /\ last_exception' = attempt + 1
                    /\ IF is_last_attempt(attempt)
                       THEN /\ tok_pc' = "raised"
                            /\ tok_result' = attempt + 1
                            /\ UNCHANGED <<now, attempt, current_delay, slept>>
                       ELSE /\ now' = advance(now, current_delay)
                            /\ slept' = Append(slept, current_delay)
                            /\ current_delay' = next_delay(current_delay)
                            /\ attempt' = attempt + 1
                            /\ UNCHANGED <<tok_pc, tok_result>>
                    /\ UNCHANGED <<access_token, token_expires_at>>
    /\ UNCHANGED srv_expires_in

\* a caller calls get_access_token()
get_access_token_call ==
    /\ tok_pc = "idle"
    /\ fetch_pc = "idle"
    /\ enter_get_access_token
    /\ UNCHANGED <<now, srv_expires_in, access_token, token_expires_at>>
    /\ UNCHANGED nonTokenVars

\* the token endpoint answers the exchange of one attempt
get_access_token_step ==
    /\ \E exchange_ok \in BOOLEAN : get_access_token_attempt(exchange_ok)
    /\ UNCHANGED nonTokenVars

\* the call is over: its caller has the token or the exception
get_access_token_end ==
    /\ tok_pc \in {"returned", "raised"}
    /\ fetch_pc = "idle"
    /\ tok_pc' = "idle"
    /\ UNCHANGED nonTokenVars
    /\ UNCHANGED <<now, srv_expires_in, access_token, token_expires_at, attempt,
                   current_delay, last_exception, exchanges, slept, tok_result>>

\* lines 145-147 of fetch_transactions, seen from the token's side: a caller
\* that was refused drops the token
invalidate_token ==
    /\ tok_pc = "idle"
    /\ fetch_pc = "idle"
    /\ access_token # 0
    /\ UNCHANGED nonTokenVars
    /\ access_token' = 0
    /\ UNCHANGED <<now, srv_expires_in, token_expires_at, tok_pc, attempt,
                   current_delay, last_exception, exchanges, slept, tok_result>>

TickSteps == {1, 30}

\* time passes between calls
Tick ==
    /\ tok_pc = "idle"
    /\ fetch_pc = "idle"
    /\ UNCHANGED nonTokenVars
    /\ \E d \in TickSteps : now + d <= MaxTime /\ now' = now + d
    /\ UNCHANGED <<srv_expires_in, access_token, token_expires_at, tok_pc, attempt,
                   current_delay, last_exception, exchanges, slept, tok_result>>

\* a new fetcher (lines 29-30) at time 0
TokenInit(lifetimes) ==
    /\ now = 0
    /\ srv_expires_in \in lifetimes
    /\ access_token = 0
    /\ token_expires_at = -1
    /\ tok_pc = "idle"
    /\ attempt = 0
    /\ current_delay = delay
    /\ last_exception = 0
    /\ exchanges = 0
    /\ slept = <<>>
    /\ tok_result = 0

\* the lifetimes a token endpoint may state
Lifetimes == {Absent, JInt(30), JInt(61), JInt(62), JInt(90)}

TokenNext ==
    \/ get_access_token_call
    \/ get_access_token_step
    \/ get_access_token_end
    \/ invalidate_token
    \/ Tick

(***************************************************************************)
(* PayPalTransactionFetcher.fetch_transactions.                            *)
(***************************************************************************)
max_pages == 100
MaxPageSize == 500
RateLimitSleep == 60

\* "page_size": min(page_size, 500), the size sent to the API
sent_page_size(ps) == Min(ps, MaxPageSize)

\* what the source answers a 200 request for page p with: pages before the
\* last are full at the size asked for and advertise a next link, the last is
\* short, pages beyond it are empty
page_content(p) ==
    IF p < src_pages THEN [page |-> p, n |-> sent_page_size(page_size), has_next |-> TRUE]
    ELSE IF p = src_pages THEN [page |-> p, n |-> src_short_len, has_next |-> src_last_next]
    ELSE [page |-> p, n |-> 0, has_next |-> FALSE]

\* a page's records put in front of the earlier ones
extend_in_front(acc, content) == <<[page |-> content.page, n |-> content.n]>> \o acc

\* all_transactions.extend(transactions), a page's records kept as one entry
extend(acc, content) == Append(acc, [page |-> content.page, n |-> content.n])

\* the last page recognised by its missing next link alone
is_last_page_by_link(content, ps) == ~content.has_next

\* line 131: "if not has_next or len(transactions) < page_size: break"
is_last_page(content, ps) == ~content.has_next \/ content.n < ps

\* line 135: page += 1
next_page(p) == p + 1

\* lines 145-150: a 401/403 is retried ("continue") or ends the loop
auth_retry(p) == p = 1

\* a "continue" that moves on to the next page
retry_next_page(p) == p + 1

\* lines 138-141: "continue" after a 429 leaves page as it is
retry_page(p) == p

\* the statuses the API may answer a GET with; -1 is an exception raised by
\* the GET itself (a timeout, a body that is not JSON); -3 is a 200 answer
\* whose "links" cannot be iterated (null, or an entry that is no mapping),
\* so that line 129 raises after the page's records were appended
Statuses == {200, 429, 401, 403, 500, -1, -3}

\* the pages on which the API may answer something else than 200
FaultPages == 2
may_fault(p) == p <= FaultPages \/ p >= max_pages

\* the effect of one answer on the loop's variables (lines 116-154):
\* go_on says whether the loop goes round again
on_response(status) ==
    LET content == page_content(page)
    IN CASE status = 200 /\ content.n = 0 ->
              [page |-> page, acc |-> all_transactions, token |-> access_token,
               sleep |-> 0, go_on |-> FALSE]
         [] status = 200 /\ content.n # 0 ->
              IF is_last_page(content, page_size)
              THEN [page |-> page, acc |-> extend(all_transactions, content),
                    token |-> access_token, sleep |-> 0, go_on |-> FALSE]
              ELSE [page |-> next_page(page), acc |-> extend(all_transactions, content),
                    token |-> access_token, sleep |-> 0, go_on |-> TRUE]
         [] status = -3 ->
              [page |-> page,
               acc |-> IF content.n = 0 THEN all_transactions
                       ELSE extend(all_transactions, content),
               token |-> access_token, sleep |-> 0, go_on |-> FALSE]
         [] status = 429 ->
              [page |-> retry_page(page), acc |-> all_transactions,
               token |-> access_token, sleep |-> RateLimitSleep, go_on |-> TRUE]
         [] status \in {401, 403} ->
              [page |-> page, acc |-> all_transactions, token |-> 0,
               sleep |-> 0, go_on |-> auth_retry(page)]
         [] OTHER ->
              [page |-> page, acc |-> all_transactions, token |-> access_token,
               sleep |-> 0, go_on |-> FALSE]

\* a loop that goes round whatever the page number
loop_head_unbounded(go_on, p) ==
    IF go_on
    THEN fetch_pc' = "token" /\ enter_get_access_token
    ELSE /\ fetch_pc' = "done"
         /\ tok_pc' = "idle"
         /\ UNCHANGED <<attempt, current_delay, last_exception, exchanges, slept,
                        tok_result>>

\* line 94 and line 99: "while page <= max_pages" lets the loop body start,
\* which first calls get_access_token(); otherwise the function returns
loop_head(go_on, p) ==
    IF go_on /\ p <= max_pages
    THEN fetch_pc' = "token" /\ enter_get_access_token
    ELSE /\ fetch_pc' = "done"
         /\ tok_pc' = "idle"
         /\ UNCHANGED <<attempt, current_delay, last_exception, exchanges, slept,
                        tok_result>>

\* lines 86-94: the locals of a new call, up to the first pass of the loop
fetch_transactions_enter ==
    /\ all_transactions' = <<>>
    /\ page' = 1
    /\ last_request' = 0
    /\ req_in_order' = TRUE
    /\ all_200' = TRUE
    /\ last_status' = 0
    /\ auth_p1' = 0
    /\ loop_head(TRUE, 1)

\* fetch_transactions is called
fetch_transactions_call ==
    /\ fetch_pc = "idle"
    /\ tok_pc = "idle"
    /\ fetch_transactions_enter
    /\ UNCHANGED <<now, srv_expires_in, access_token, token_expires_at>>
    /\ UNCHANGED <<src_pages, src_short_len, src_last_next, page_size>>
    /\ UNCHANGED nonFetchVars

\* lines 113-150: the GET for the current page and the handling of its answer
fetch_request ==
    /\ fetch_pc = "token"
    /\ tok_pc = "returned"
    /\ \E status \in Statuses :
          /\ status # 200 => may_fault(page)
          /\ LET r == on_response(status)
             IN /\ page' = r.page
                /\ all_transactions' = r.acc
                /\ access_token' = r.token
                /\ now' = advance(now, r.sleep)
                /\ loop_head(r.go_on, r.page)
          /\ last_status' = status
          /\ all_200' = (all_200 /\ status = 200)
          /\ auth_p1' = IF status \in {401, 403} /\ page = 1
                        THEN Min(auth_p1 + 1, 2) ELSE auth_p1
    /\ last_request' = page
    /\ req_in_order' = (req_in_order /\ page = last_request + 1)
    /\ UNCHANGED <<srv_expires_in, token_expires_at>>
    /\ UNCHANGED <<src_pages, src_short_len, src_last_next, page_size>>
    /\ UNCHANGED nonFetchVars

\* lines 152-154: get_access_token raised inside the try block
fetch_token_raised ==
    /\ fetch_pc = "token"
    /\ tok_pc = "raised"
    /\ last_status' = -2
    /\ all_200' = FALSE
    /\ loop_head(FALSE, page)
    /\ UNCHANGED <<now, srv_expires_in, access_token, token_expires_at>>
    /\ UNCHANGED <<src_pages, src_short_len, src_last_next, page_size, page,
                   all_transactions, last_request, req_in_order, auth_p1>>
    /\ UNCHANGED nonFetchVars

\* the numbers of pages a source is given
SmallPages == 3
PageCounts == (1..SmallPages) \cup {max_pages, max_pages + 1}

\* page_size arguments within the documented maximum of 500
PageSizes == {2, MaxPageSize}

\* page_size arguments on both sides of the maximum
OversizePageSizes == {MaxPageSize, MaxPageSize + 1}

\* a source and the argument of the call; no call is under way
FetchInitSized(counts, sizes) ==
    /\ src_pages \in counts
    /\ page_size \in sizes
    /\ src_short_len \in {0, 1}
    /\ src_last_next \in BOOLEAN
    /\ fetch_pc = "idle"
    /\ page = 1
    /\ all_transactions = <<>>
    /\ last_request = 0
    /\ req_in_order = TRUE
    /\ all_200 = TRUE
    /\ last_status = 0
    /\ auth_p1 = 0

FetchInit(counts) == FetchInitSized(counts, PageSizes)

\* no fetch is made: a source of one empty page and the default page_size
FetchIdle ==
    /\ FetchInit({1})
    /\ page_size = MaxPageSize
    /\ src_short_len = 0
    /\ src_last_next = FALSE

FetchNext ==
    \/ fetch_transactions_call
    \/ get_access_token_step
    \/ fetch_request
    \/ fetch_token_raised


(***************************************************************************)
(* Raw records the parser is run on.                                       *)
(***************************************************************************)
Money(value) == [k |-> "map", currency_code |-> Str("USD"), value |-> value]

\* a transaction_info mapping; raw_net is a net value the source itself states
TInfo(id, amount, fee, date, raw_net) ==
    [k |-> "map", transaction_id |-> Str(id), transaction_amount |-> amount,
     fee_amount |-> fee, net_amount |-> raw_net,
     transaction_status |-> Str("S"),
     transaction_initiation_date |-> date,
     transaction_updated_date |-> Absent, invoice_id |-> Absent,
     payment_tracking_info |-> Absent, store_info |-> Absent]

PInfo ==
    [k |-> "map", email_address |-> Str("a@example.com"),
     payer_name |-> [k |-> "map", given_name |-> Str("Ann"), surname |-> Str("Lee")],
     country_code |-> Str("US")]

SInfo ==
    [k |-> "map", method |-> Str("post"),
     name |-> [k |-> "map", given_name |-> Str("Ann"), surname |-> Absent],
     address |-> [k |-> "map", address_line_1 |-> Str("1 Main St"),
                  address_line_2 |-> Absent, admin_area_2 |-> Str("Town"),
                  admin_area_1 |-> Absent, postal_code |-> Absent,
                  country_code |-> Str("US")]]

CInfo ==
    [k |-> "map",
     item_details |-> List(<<[k |-> "map", item_name |-> Str("Product"),
                              item_quantity |-> Str("1"),
                              item_unit_price |-> Absent,
                              item_amount |-> Money(Str("12.50"))]>>)]

Txn(ti, pi, si, ci) ==
    [k |-> "map", transaction_info |-> ti, payer_info |-> pi,
     shipping_info |-> si, cart_info |-> ci]

GoodDate == Str("2025-07-30T10:30:00+00:00")
GoodTInfo(id) == TInfo(id, Money(Str("12.50")), Money(Str("0.25")), GoodDate, Absent)
GoodTxn(id) == Txn(GoodTInfo(id), PInfo, SInfo, CInfo)

\* what an amount, fee or value slot may hold
ValueShapes ==
    {Absent, Null, Str("12.50"), Str("0.25"), Str("abc"), Str("nan"), Str("inf"),
     Str(""), Num(500), List(<<>>)}
MoneyShapes ==
    {Absent, Null, Str("12.50"), EmptyMap} \cup {Money(v) : v \in ValueShapes}
DateShapes ==
    {Absent, Null, Str(""), GoodDate, Str("2025-07-30T10:30:00Z"),
     Str("yesterday"), Num(500),
     Str(iso(StartDate, 10, "-07:00")), Str(iso(StartDate, 23, "+02:00"))}
RawNets == {Absent, Str("999.99")}

\* records whose four groups are well-formed mappings, with every combination
\* of amount, fee, date and stated net
SubfieldRecords ==
    {Txn(TInfo("T1", a, f, d, n), PInfo, SInfo, CInfo) :
        a \in MoneyShapes, f \in MoneyShapes, d \in DateShapes, n \in RawNets}

\* what a group slot (or the record itself) may hold instead of its mapping
BrokenShapes == {Absent, Null, Str("bad"), EmptyMap}

\* records with one group (or the record itself) missing or malformed
StructureRecords ==
    {GoodTxn("T1"), GoodTxn("T2"), Null, Str("bad")}
    \cup {Txn(x, PInfo, SInfo, CInfo) : x \in BrokenShapes}
    \cup {Txn(GoodTInfo("T3"), x, SInfo, CInfo) : x \in BrokenShapes}
    \cup {Txn(GoodTInfo("T4"), PInfo, x, CInfo) : x \in BrokenShapes}
    \cup {Txn(GoodTInfo("T5"), PInfo, SInfo, x) : x \in BrokenShapes}
    \cup {Txn(TInfo("T6", Null, Money(Str("0.25")), GoodDate, Absent),
              PInfo, SInfo, CInfo)}

\* a well-formed record with the four fields the business rules look at
RuleTxn(id, value, status, currency) ==
    Txn([GoodTInfo(id) EXCEPT
            !.transaction_amount = [k |-> "map", currency_code |-> currency,
                                    value |-> Str(value)],
            !.transaction_status = status],
        PInfo, SInfo, CInfo)

\* records that keep or break each rule: an empty id, a negative amount, an
\* unknown or empty status, a currency code that is short, empty or a number
RuleRecords ==
    {RuleTxn(id, value, status, currency) :
        id \in {"T1", ""}, value \in {"12.50", "-5.00"},
        status \in {Str("S"), Str("X"), Str("")},
        currency \in {Str("USD"), Str("US"), Str(""), Num(840)}}

\* well-formed records of two days, and a record without a date
RollupRecords ==
    {Txn(TInfo("T1", Money(Str(value)), Money(Str("0.25")), date, Absent),
         PInfo, SInfo, CInfo) :
        value \in {"12.50", "25.00"},
        date \in {Str(iso("2025-07-30", 10, "+00:00")),
                  Str(iso("2024-02-29", 23, "+00:00"))}}
    \cup {Txn(TInfo("T1", Money(Str("12.50")), Money(Str("0.25")), Null, Absent),
               PInfo, SInfo, CInfo)}

\* the longest batch the rollup is computed on
MaxRollup == 3

\* the longest batch parse_transactions is run on
MaxBatch == 2

RECURSIVE SeqsUpTo(_, _)
SeqsUpTo(S, n) ==
    IF n = 0 THEN {<<>>}
    ELSE SeqsUpTo(S, n - 1)
         \cup {Append(q, x) : q \in {r \in SeqsUpTo(S, n - 1) : Len(r) = n - 1}, x \in S}

\* a fresh parser (line 23-26) about to parse the batch
ParserInit(batches) ==
    /\ raw_transactions \in batches
    /\ parse_pc = "ready"
    /\ parse_i = 1
    /\ parsed_transactions = <<>>
    /\ parsing_errors = <<>>
    /\ validation_errors = <<>>
    /\ statistics = NoStatistics

ParserNext ==
    \/ parse_transactions_begin
    \/ parse_transactions_step
    \/ parse_transactions_return
    \/ generate_statistics_call

(***************************************************************************)
(* BigQueryLoader.validate_data.                                           *)
(***************************************************************************)
\* lines 265-313: the checks, in the order of the dict
CheckNames == <<"total_rows", "unique_transactions", "null_transaction_ids",
                "date_range", "status_distribution", "amount_summary">>

\* lines 261-263: date_condition is '' unless date_filter is truthy
has_date_condition(filter) == Truthy(filter)

\* lines 276-281: the query of null_transaction_ids appends
\* "AND transaction_id IS NULL" to date_condition; with an empty
\* date_condition it reads "FROM t AND ..." and the sink rejects it
query_malformed(name, filter) ==
    name = "null_transaction_ids" /\ ~has_date_condition(filter)

\* lines 318-319: client.query(query) / query_job.result() raises
query_raises(name, filter, refused) == query_malformed(name, filter) \/ refused = name

CheckError == [k |-> "error"]
CheckRows == [k |-> "rows"]

\* lines 321-338: what a check that ran stores in results
check_result(name, content) ==
    CASE name = "total_rows" -> JInt(content.total)
      [] name = "unique_transactions" -> JInt(content.distinct)
      [] name = "null_transaction_ids" -> JInt(content.nulls)
      [] OTHER -> CheckRows

\* lines 316-342: one pass of the loop: the result, or the error under the
\* check's name
run_check(name, content, filter, refused) ==
    IF query_raises(name, filter, refused) THEN CheckError
    ELSE check_result(name, content)

\* a guard that lets an empty table through to the divisions
has_rows_or_none(n) == n >= 0

\* "if total_rows > 0" (lines 350-351)
has_rows(n) == n > 0

\* line 350: (1 - null_ids / total_rows) * 100 if total_rows > 0 else 0
completeness_score(null_ids, total_rows) ==
    IF has_rows(total_rows) THEN Score((total_rows - null_ids) * 100, total_rows)
    ELSE Score(0, 1)

\* line 351: (unique_transactions / total_rows) * 100 if total_rows > 0 else 0
uniqueness_score(unique_transactions, total_rows) ==
    IF has_rows(total_rows) THEN Score(unique_transactions * 100, total_rows)
    ELSE Score(0, 1)

\* line 358: (completeness + uniqueness) / 2
total_score(completeness, uniqueness) ==
    Score(completeness.num * uniqueness.den + uniqueness.num * completeness.den,
          2 * completeness.den * uniqueness.den)

\* lines 345-358 raise: TypeError when total_rows is an error dict (dict > int)
\* or when a count that is divided is one; ZeroDivisionError when the
\* division is reached with no rows
score_raises(results) ==
    \/ results["total_rows"].k # "int"
    \/ /\ has_rows(results["total_rows"].n)
       /\ \/ results["null_transaction_ids"].k # "int"
          \/ results["unique_transactions"].k # "int"
          \/ results["total_rows"].n = 0

\* lines 349-358: results['data_quality']
data_quality(results) ==
    LET total_rows == results["total_rows"].n
        completeness == completeness_score(results["null_transaction_ids"].n, total_rows)
        uniqueness == uniqueness_score(results["unique_transactions"].n, total_rows)
    IN [completeness_score |-> completeness,
        uniqueness_score |-> uniqueness,
        total_score |-> total_score(completeness, uniqueness)]

NoResults == [name \in {} |-> CheckError]

\* lines 316-342: the next check of the loop
validate_data_check ==
    /\ val_pc = "checks"
    /\ LET name == CheckNames[val_i]
       IN val_results' =
             [n \in (DOMAIN val_results) \cup {name} |->
                 IF n = name THEN run_check(name, sink, date_filter, failing_check)
                 ELSE val_results[n]]
    /\ val_i' = val_i + 1
    /\ val_pc' = IF val_i = Len(CheckNames) THEN "scores" ELSE "checks"
    /\ UNCHANGED <<sink, date_filter, failing_check>>
    /\ UNCHANGED nonLoaderVars

\* lines 344-364: the scores are added and the results returned, unless the
\* arithmetic raises
validate_data_score ==
    /\ val_pc = "scores"
    /\ IF score_raises(val_results)
       THEN val_pc' = "raised" /\ UNCHANGED val_results
       ELSE /\ val_pc' = "returned"
            /\ val_results' =
                  [n \in (DOMAIN val_results) \cup {"data_quality"} |->
                      IF n = "data_quality" THEN data_quality(val_results)
                      ELSE val_results[n]]
    /\ UNCHANGED <<sink, date_filter, failing_check, val_i>>
    /\ UNCHANGED nonLoaderVars

\* the most rows the sink holds
MaxRows == 3

\* the contents one table can have: null ids and distinct non-null ids
Content(total, distinct, nulls) == [total |-> total, distinct |-> distinct, nulls |-> nulls]
SinkContents ==
    {c \in [total : 0..MaxRows, distinct : 0..MaxRows, nulls : 0..MaxRows] :
        /\ c.nulls <= c.total
        /\ c.distinct <= c.total - c.nulls
        /\ (c.total > c.nulls) => c.distinct >= 1}

DateFilters == {Null, Str(""), Str(StartDate)}

\* a validate_data call about to run its first check
LoaderInit(contents, filters, refusals) ==
    /\ sink \in contents
    /\ date_filter \in filters
    /\ failing_check \in refusals
    /\ val_pc = "checks"
    /\ val_i = 1
    /\ val_results = NoResults

\* no validate_data call is made
LoaderIdle ==
    /\ sink = Content(0, 0, 0)
    /\ date_filter = Null
    /\ failing_check = "none"
    /\ val_pc = "idle"
    /\ val_i = 1
    /\ val_results = NoResults

LoaderNext ==
    \/ validate_data_check
    \/ validate_data_score

(***************************************************************************)
(* The DAG paypal_data_pipeline: its tasks, their dependencies and trigger *)
(* rules, and the scheduler's handling of retries.                         *)
(***************************************************************************)
retries == 2
MockCount == 25
DefaultPageSize == 500

Tasks == {"validate_environment", "calculate_dates", "extract_data",
          "transform_data", "load_to_bq", "data_quality_check",
          "send_completion_notification", "cleanup_temp_files"}

\* lines 435-436: the direct upstream tasks
Upstream(t) ==
    CASE t = "validate_environment" -> {}
      [] t = "calculate_dates" -> {"validate_environment"}
      [] t = "extract_data" -> {"calculate_dates"}
      [] t = "transform_data" -> {"extract_data"}
      [] t = "load_to_bq" -> {"transform_data"}
      [] t = "data_quality_check" -> {"load_to_bq"}
      [] t = "send_completion_notification" -> {"data_quality_check"}
      [] t = "cleanup_temp_files" -> {"extract_data", "transform_data", "load_to_bq"}

\* every task with the default trigger rule
TriggerRule_default(t) == "all_success"

\* line 423: cleanup_temp_files is the one task with trigger_rule='all_done'
TriggerRule(t) == IF t = "cleanup_temp_files" THEN "all_done" ELSE "all_success"

Finished == {"success", "failed", "upstream_failed"}

\* the task's trigger rule is met
triggered(t) ==
    IF TriggerRule(t) = "all_done"
    THEN \A u \in Upstream(t) : task_state[u] \in Finished
    ELSE \A u \in Upstream(t) : task_state[u] = "success"

\* the scheduler may start (or start again) the task
runnable(t) == task_state[t] \in {"none", "up_for_retry"} /\ triggered(t)

\* the state of a task whose n-th attempt raised: retried while n <= retries
after_failure(n) == IF n <= retries THEN "up_for_retry" ELSE "failed"

NoFile == [k |-> "nofile"]
NoResult == [k |-> "none"]

\* start_date.replace('-', '') (line 153)
compact(d) ==
    CASE d = "2025-07-30" -> "20250730"
      [] d = "2024-02-29" -> "20240229"
      [] d = "2025-12-31" -> "20251231"
      [] d = "2025-01-01" -> "20250101"

\* an hour that leaves the day from the 14th record on
mock_hour_unwrapped(i) == 10 + i

\* line 156: the hour of the i-th mock record
mock_hour(i) == 10 + (i % 12)

\* lines 150-172: the i-th mock record for start_date d
mock_record(d, i) ==
    [k |-> "map",
     transaction_info |->
        [k |-> "map",
         transaction_id |-> Str("MOCK" \o (IF i < 10 THEN "00" ELSE "0") \o ToString(i)
                                \o "_" \o compact(d)),
         transaction_amount |-> Money(Str(fmt2(i * 1250))),
         fee_amount |-> Money(Str(fmt2(i * 50))),
         net_amount |-> Absent,
         transaction_status |-> Str("S"),
         transaction_initiation_date |-> Str(iso(d, mock_hour(i), "+00:00")),
         transaction_updated_date |-> Absent,
         invoice_id |-> Str("INV_" \o d \o "_" \o (IF i < 10 THEN "00" ELSE "0")
                            \o ToString(i)),
         payment_tracking_info |-> Absent, store_info |-> Absent],
     payer_info |->
        [k |-> "map", email_address |-> Str("customer" \o ToString(i) \o "@example.com"),
         payer_name |-> [k |-> "map", given_name |-> Str("Customer" \o ToString(i)),
                         surname |-> Str("Test")],
         country_code |-> Str("US")],
     shipping_info |-> Absent,
     cart_info |->
        [k |-> "map",
         item_details |-> List(<<[k |-> "map", item_name |-> Str("Product " \o ToString(i)),
                                  item_quantity |-> Str("1"),
                                  item_unit_price |-> Absent,
                                  item_amount |-> Money(Str(fmt2(i * 1250)))]>>)]]

\* the mock batch of the run for StartDate
MockTxn(i) == mock_record(StartDate, i)
mock_transactions == [i \in 1..MockCount |-> MockTxn(i)]

\* the mock batch for start_date d
mock_batch(d) == [i \in 1..MockCount |-> mock_record(d, i)]

\* lines 174-195: the mock batch is written and reported
mock_file == [k |-> "file", api_environment |-> "mock", transactions |-> mock_transactions]
mock_results == [k |-> "results", transaction_count |-> Len(mock_transactions),
                 data_source |-> "mock"]

\* the list fetch_transactions returns: the records of the pages it added
RECURSIVE total_records(_)
total_records(acc) == IF acc = <<>> THEN 0 ELSE Head(acc).n + total_records(Tail(acc))
fetched_transactions == [i \in 1..total_records(all_transactions) |-> src_record]

\* lines 119-142: save_raw_data and the results of the API branch
api_file(transactions) ==
    [k |-> "file", api_environment |-> "sandbox", transactions |-> transactions]
api_results(transactions) ==
    [k |-> "results", transaction_count |-> Len(transactions), data_source |-> "paypal_api"]

\* float(x) raises TypeError or ValueError
float_raises(value) ==
    \/ value.k \in {"null", "list", "map"}
    \/ value.k = "str" /\ float_of_str(value.s) = ValueError

\* lines 252-263: whether the fallback transformation of one record raises
fallback_raises(transaction) ==
    \/ GetRaises(transaction)
    \/ LET transaction_info == Get(transaction, "transaction_info", EmptyMap)
           payer_info == Get(transaction, "payer_info", EmptyMap)
       IN \/ GetRaises(transaction_info)
          \/ GetRaises(payer_info)
          \/ GetRaises(Get(transaction_info, "transaction_amount", EmptyMap))
          \/ float_raises(Get(Get(transaction_info, "transaction_amount", EmptyMap),
                              "value", Num(0)))

\* lines 244-275: the fallback transformation of the raw file
fallback_transformation(transactions) ==
    IF \E i \in 1..Len(transactions) : fallback_raises(transactions[i])
    THEN [out |-> "raise"]
    ELSE [out |-> "ok", rows |-> Len(transactions), errors |-> 0]

\* lines 222-236: the parser's batch is saved and reported
parser_outcome ==
    [out |-> "ok", rows |-> Len(parsed_transactions), errors |-> Len(parsing_errors)]

\* the end of an attempt of transform_data (its n-th): the output file and
\* the XCom are written, or the exception fails the attempt
transform_end(outcome, n) ==
    IF outcome.out = "raise"
    THEN /\ task_state' = [task_state EXCEPT !["transform_data"] = after_failure(n)]
         /\ UNCHANGED <<parsed_file, transformation_results>>
    ELSE /\ task_state' = [task_state EXCEPT !["transform_data"] = "success"]
         /\ parsed_file' = [k |-> "file", rows |-> outcome.rows]
         /\ transformation_results' =
               [k |-> "results", transaction_count |-> outcome.rows,
                parsing_errors |-> outcome.errors]

fetchLocals == <<fetch_pc, page, all_transactions, last_request, req_in_order,
                 all_200, last_status, auth_p1>>
fetchSource == <<src_pages, src_short_len, src_last_next, page_size>>
tokenCall == <<tok_pc, attempt, current_delay, last_exception, exchanges, slept,
               tok_result>>

\* validate_environment (lines 79-91) only prints the configuration
validate_environment ==
    /\ runnable("validate_environment")
    /\ task_state' = [task_state EXCEPT !["validate_environment"] = "success"]
    /\ try_number' = [try_number EXCEPT !["validate_environment"] = @ + 1]
    /\ UNCHANGED <<dagEnv, raw_file, parsed_file, extraction_results,
                   transformation_results, load_results, summary,
                   normalized_count, quality_check_rows>>
    /\ UNCHANGED <<parserVars, tokenVars, fetchVars, loaderVars>>

\* calculate_date_range (lines 62-76) pushes the date range
calculate_date_range ==
    /\ runnable("calculate_dates")
    /\ task_state' = [task_state EXCEPT !["calculate_dates"] = "success"]
    /\ try_number' = [try_number EXCEPT !["calculate_dates"] = @ + 1]
    /\ UNCHANGED <<dagEnv, raw_file, parsed_file, extraction_results,
                   transformation_results, load_results, summary,
                   normalized_count, quality_check_rows>>
    /\ UNCHANGED <<parserVars, tokenVars, fetchVars, loaderVars>>

\* extract_paypal_data, lines 96-115: a new fetcher starts fetch_transactions;
\* if the import raises, the except branch (lines 144-197) writes the mock
\* batch at once
extract_begin ==
    /\ runnable("extract_data")
    /\ fetch_pc = "idle"
    /\ tok_pc = "idle"
    /\ try_number' = [try_number EXCEPT !["extract_data"] = @ + 1]
    /\ IF fetcher_importable
       THEN /\ task_state' = [task_state EXCEPT !["extract_data"] = "running"]
            /\ access_token' = 0
            /\ token_expires_at' = -1
            /\ fetch_transactions_enter
            /\ UNCHANGED <<raw_file, extraction_results>>
       ELSE /\ task_state' = [task_state EXCEPT !["extract_data"] = "success"]
            /\ raw_file' = mock_file
            /\ extraction_results' = mock_results
            /\ UNCHANGED <<access_token, token_expires_at, fetchLocals, tokenCall>>
    /\ UNCHANGED <<now, srv_expires_in, fetchSource>>
    /\ UNCHANGED <<dagEnv, parsed_file, transformation_results, load_results,
                   summary, normalized_count, quality_check_rows>>
    /\ UNCHANGED <<parserVars, loaderVars>>

\* extract_paypal_data, lines 117-200, once fetch_transactions has returned:
\* the batch is saved (a failed upload is only logged); if saving raises,
\* the except branch writes the mock batch.  The fetcher and the locals of
\* the call end with the task; last_status stays as the record of how the
\* fetch ended.
extract_finish ==
    /\ task_state["extract_data"] = "running"
    /\ fetch_pc = "done"
    /\ fetch_pc' = "idle"
    /\ page' = 1
    /\ all_transactions' = <<>>
    /\ last_request' = 0
    /\ req_in_order' = TRUE
    /\ all_200' = TRUE
    /\ auth_p1' = 0
    /\ access_token' = 0
    /\ token_expires_at' = -1
    /\ attempt' = 0
    /\ current_delay' = delay
    /\ last_exception' = 0
    /\ exchanges' = 0
    /\ slept' = <<>>
    /\ tok_result' = 0
    /\ \E save_ok \in BOOLEAN :
          IF save_ok
          THEN /\ raw_file' = api_file(fetched_transactions)
               /\ extraction_results' = api_results(fetched_transactions)
          ELSE /\ raw_file' = mock_file
               /\ extraction_results' = mock_results
    /\ task_state' = [task_state EXCEPT !["extract_data"] = "success"]
    /\ UNCHANGED <<last_status, fetchSource, now, srv_expires_in, tok_pc>>
    /\ UNCHANGED <<dagEnv, try_number, parsed_file, transformation_results,
                   load_results, summary, normalized_count, quality_check_rows>>
    /\ UNCHANGED <<parserVars, loaderVars>>

\* transform_paypal_data, lines 205-217: a new parser loads the raw file and
\* starts parse_transactions; if the import raises, the except branch (lines
\* 240-277) runs the fallback transformation at once
transform_begin ==
    /\ runnable("transform_data")
    /\ parse_pc = "idle"
    /\ raw_file.k = "file"
    /\ try_number' = [try_number EXCEPT !["transform_data"] = @ + 1]
    /\ IF parser_importable
       THEN /\ task_state' = [task_state EXCEPT !["transform_data"] = "running"]
            /\ raw_transactions' = raw_file.transactions
            /\ parse_pc' = "ready"
            /\ parse_i' = 1
            /\ parsed_transactions' = <<>>
            /\ parsing_errors' = <<>>
            /\ validation_errors' = <<>>
            /\ statistics' = NoStatistics
            /\ UNCHANGED <<parsed_file, transformation_results>>
       ELSE /\ transform_end(fallback_transformation(raw_file.transactions),
                             try_number["transform_data"] + 1)
            /\ UNCHANGED parserVars
    /\ normalized_count' = -1
    /\ UNCHANGED <<dagEnv, raw_file, extraction_results, load_results, summary,
                   quality_check_rows>>
    /\ UNCHANGED <<tokenVars, fetchVars, loaderVars>>

\* transform_paypal_data, lines 217-280, once parse_transactions has returned
\* or raised: a non-empty batch is saved and reported (generate_statistics
\* returns for the records drawn here); an empty one raises
\* AirflowFailException inside the try block, and that, like any exception
\* out of the parser, is caught by "except Exception" and answered by the
\* fallback transformation
transform_finish ==
    /\ task_state["transform_data"] = "running"
    /\ parse_pc \in {"returned", "raised"}
    /\ parse_pc' = "idle"
    /\ normalized_count' = IF parse_pc = "returned" THEN Len(parsed_transactions) ELSE -1
    /\ transform_end(IF parse_pc = "returned" /\ parsed_transactions # <<>>
                     THEN parser_outcome
                     ELSE fallback_transformation(raw_file.transactions),
                     try_number["transform_data"])
    /\ statistics' = IF parse_pc = "returned" /\ parsed_transactions # <<>>
                      THEN generate_statistics(parsed_transactions, parsing_errors,
                                               validation_errors)
                      ELSE statistics
    /\ UNCHANGED <<raw_transactions, parse_i, parsed_transactions, parsing_errors,
                   validation_errors>>
    /\ UNCHANGED <<dagEnv, try_number, raw_file, extraction_results, load_results,
                   summary, quality_check_rows>>
    /\ UNCHANGED <<tokenVars, fetchVars, loaderVars>>

\* the steps of the loader that can raise (lines 293-314), in order;
\* create_or_update_views catches its own errors
LoadSteps == <<"import", "create_dataset_if_not_exists", "create_table_if_not_exists",
               "load_from_file", "wait_for_job", "update_loaded_timestamp",
               "validate_data">>
step_index(step) == CHOOSE i \in 1..Len(LoadSteps) : LoadSteps[i] = step

\* the load job appended the file's rows to the table: the failing step, if
\* any, comes after wait_for_job
job_done(fail_at) == fail_at = "none" \/ step_index(fail_at) > step_index("wait_for_job")

\* load_from_file with WRITE_APPEND (lines 306-311) on a table that holds
\* nothing or earlier loads of the same file: one more row per line of the
\* file, the transaction_ids being those of the file
appended(content, rows) ==
    Content(content.total + rows,
            IF content.distinct >= rows THEN content.distinct ELSE rows,
            content.nulls)

\* validate_data(date_filter=start_date) (line 314) with every query answered
validation_results(content) ==
    data_quality([i \in {CheckNames[j] : j \in 1..Len(CheckNames)} |->
                     run_check(i, content, Str(StartDate), "none")])

\* lines 316-326: the results of a load that went through
job_results(file, content) ==
    [k |-> "results", output_rows |-> file.rows, state |-> "DONE",
     total_score |-> validation_results(content).total_score]

\* a handler that reports no rows
mock_load_results_empty(file) ==
    [k |-> "results", output_rows |-> 0, state |-> "MOCK",
     total_score |-> Score(95, 1)]

\* lines 328-341: the handler counts the lines of the parsed file
mock_load_results(file) ==
    [k |-> "results", output_rows |-> file.rows, state |-> "MOCK",
     total_score |-> Score(95, 1)]

\* load_to_bigquery (lines 283-344): the loader's results, or, when a step of
\* it raises, the mock results; the task succeeds either way
load_to_bigquery ==
    /\ runnable("load_to_bq")
    /\ parsed_file.k = "file"
    /\ \E fail_at \in {"none"} \cup {LoadSteps[i] : i \in 1..Len(LoadSteps)} :
          /\ sink' = IF job_done(fail_at) THEN appended(sink, parsed_file.rows) ELSE sink
          /\ load_results' = IF fail_at = "none" THEN job_results(parsed_file, sink')
                             ELSE mock_load_results(parsed_file)
    /\ task_state' = [task_state EXCEPT !["load_to_bq"] = "success"]
    /\ try_number' = [try_number EXCEPT !["load_to_bq"] = @ + 1]
    /\ UNCHANGED <<dagEnv, raw_file, parsed_file, extraction_results,
                   transformation_results, summary, normalized_count,
                   quality_check_rows>>
    /\ UNCHANGED <<date_filter, failing_check, val_pc, val_i, val_results>>
    /\ UNCHANGED <<parserVars, tokenVars, fetchVars>>

\* data_quality_check (lines 404-414): counts the rows of the parsed file if
\* the file is there
data_quality_check ==
    /\ runnable("data_quality_check")
    /\ quality_check_rows' = IF parsed_file.k = "file" THEN parsed_file.rows ELSE -1
    /\ task_state' = [task_state EXCEPT !["data_quality_check"] = "success"]
    /\ try_number' = [try_number EXCEPT !["data_quality_check"] = @ + 1]
    /\ UNCHANGED <<dagEnv, raw_file, parsed_file, extraction_results,
                   transformation_results, load_results, summary, normalized_count>>
    /\ UNCHANGED <<parserVars, tokenVars, fetchVars, loaderVars>>

\* cleanup_temp_files (lines 416-425): rm -f of both files
cleanup_temp_files ==
    /\ runnable("cleanup_temp_files")
    /\ raw_file' = NoFile
    /\ parsed_file' = NoFile
    /\ task_state' = [task_state EXCEPT !["cleanup_temp_files"] = "success"]
    /\ try_number' = [try_number EXCEPT !["cleanup_temp_files"] = @ + 1]
    /\ UNCHANGED <<dagEnv, extraction_results, transformation_results,
                   load_results, summary, normalized_count, quality_check_rows>>
    /\ UNCHANGED <<parserVars, tokenVars, fetchVars, loaderVars>>

\* send_completion_notification (lines 347-370)
send_completion_notification ==
    /\ runnable("send_completion_notification")
    /\ summary' = [k |-> "summary", status |-> "SUCCESS",
                   data_source |-> extraction_results.data_source,
                   extracted_transactions |-> extraction_results.transaction_count,
                   transformed_transactions |-> transformation_results.transaction_count,
                   loaded_rows |-> load_results.output_rows,
                   data_quality_score |-> load_results.total_score]
    /\ task_state' = [task_state EXCEPT !["send_completion_notification"] = "success"]
    /\ try_number' = [try_number EXCEPT !["send_completion_notification"] = @ + 1]
    /\ UNCHANGED <<dagEnv, raw_file, parsed_file, extraction_results,
                   transformation_results, load_results, normalized_count,
                   quality_check_rows>>
    /\ UNCHANGED <<parserVars, tokenVars, fetchVars, loaderVars>>

\* the runs of the load stage for one date window
MaxLoads == 2

\* load_to_bq is run again for the same date window (the task instance is
\* cleared, or a second run is made for the date): it and the tasks after it
\* are to run again, on the files and results of the tasks before it
load_to_bq_again ==
    /\ task_state["load_to_bq"] = "success"
    /\ try_number["load_to_bq"] < MaxLoads
    /\ parsed_file.k = "file"
    /\ task_state' = [t \in Tasks |->
                         IF t \in {"load_to_bq", "data_quality_check",
                                   "send_completion_notification"}
                         THEN "none" ELSE task_state[t]]
    /\ UNCHANGED <<dagEnv, try_number, raw_file, parsed_file, extraction_results,
                   transformation_results, load_results, summary, normalized_count,
                   quality_check_rows>>
    /\ UNCHANGED <<parserVars, tokenVars, fetchVars, loaderVars>>

\* the scheduler gives up a task with the default trigger rule as soon as
\* one of its upstream tasks has failed
mark_upstream_failed ==
    /\ \E t \in Tasks :
          /\ TriggerRule(t) = "all_success"
          /\ task_state[t] = "none"
          /\ \E u \in Upstream(t) : task_state[u] \in {"failed", "upstream_failed"}
          /\ task_state' = [task_state EXCEPT ![t] = "upstream_failed"]
    /\ UNCHANGED <<dagEnv, try_number, raw_file, parsed_file, extraction_results,
                   transformation_results, load_results, summary, normalized_count,
                   quality_check_rows>>
    /\ UNCHANGED <<parserVars, tokenVars, fetchVars, loaderVars>>

\* the raw records the source of a run holds: a well-formed one, one whose
\* shipping_info is null and one whose transaction_info is null
DagRecords ==
    {GoodTxn("T1"), Txn(GoodTInfo("T4"), PInfo, Null, CInfo), Txn(Null, PInfo, SInfo, CInfo)}

\* a run that has not started, in an environment and against a source
DagInit(imports, records) ==
    /\ fetcher_importable \in imports
    /\ parser_importable \in imports
    /\ src_record \in records
    /\ task_state = [t \in Tasks |-> "none"]
    /\ try_number = [t \in Tasks |-> 0]
    /\ raw_file = NoFile
    /\ parsed_file = NoFile
    /\ extraction_results = NoResult
    /\ transformation_results = NoResult
    /\ load_results = NoResult
    /\ summary = NoResult
    /\ normalized_count = -1
    /\ quality_check_rows = -1

\* no run is made
DagIdle == DagInit({TRUE}, {GoodTxn("T1")})

\* a parser that is not parsing
ParserIdle ==
    /\ raw_transactions = <<>>
    /\ parse_pc = "idle"
    /\ parse_i = 1
    /\ parsed_transactions = <<>>
    /\ parsing_errors = <<>>
    /\ validation_errors = <<>>
    /\ statistics = NoStatistics

DagNext ==
    \/ validate_environment
    \/ calculate_date_range
    \/ extract_begin
    \/ get_access_token_step
    \/ fetch_request
    \/ fetch_token_raised
    \/ extract_finish
    \/ transform_begin
    \/ parse_transactions_begin
    \/ parse_transactions_step
    \/ parse_transactions_return
    \/ transform_finish
    \/ load_to_bigquery
    \/ data_quality_check
    \/ cleanup_temp_files
    \/ send_completion_notification
    \/ mark_upstream_failed

\* the tasks before load_to_bq have succeeded on a batch of a few rows
\* fetched from the API
InitReload ==
    /\ ParserIdle /\ TokenInit({Absent}) /\ FetchIdle /\ LoaderIdle
    /\ fetcher_importable = TRUE
    /\ parser_importable = TRUE
    /\ src_record = GoodTxn("T1")
    /\ task_state = [t \in Tasks |->
                        IF t \in {"validate_environment", "calculate_dates",
                                  "extract_data", "transform_data"}
                        THEN "success" ELSE "none"]
    /\ try_number = [t \in Tasks |-> IF task_state[t] = "success" THEN 1 ELSE 0]
    /\ \E rows \in 1..MaxRows :
          /\ raw_file = api_file([i \in 1..rows |-> src_record])
          /\ extraction_results = api_results([i \in 1..rows |-> src_record])
          /\ parsed_file = [k |-> "file", rows |-> rows]
          /\ transformation_results =
                [k |-> "results", transaction_count |-> rows, parsing_errors |-> 0]
          /\ normalized_count = rows
    /\ load_results = NoResult
    /\ summary = NoResult
    /\ quality_check_rows = -1

ReloadNext ==
    \/ load_to_bigquery
    \/ load_to_bq_again
    \/ data_quality_check
    \/ send_completion_notification

SpecReload == InitReload /\ [][ReloadNext]_vars

\* parse_transactions on batches of structurally varied records
InitParse ==
    ParserInit(SeqsUpTo(StructureRecords, MaxBatch)) /\ TokenInit({Absent}) /\ FetchIdle /\ DagIdle
    /\ LoaderIdle
SpecParse == InitParse /\ [][ParserNext]_vars

\* parse_transactions on one record with varied amount, fee and date
InitNormalize ==
    ParserInit({<<r>> : r \in SubfieldRecords}) /\ TokenInit({Absent}) /\ FetchIdle /\ DagIdle
    /\ LoaderIdle
SpecNormalize == InitNormalize /\ [][ParserNext]_vars

\* get_access_token called again and again as time passes
InitToken ==
    ParserInit({<<>>}) /\ TokenInit(Lifetimes) /\ FetchIdle /\ DagIdle /\ LoaderIdle
SpecToken == InitToken /\ [][TokenNext]_vars

\* one fetch_transactions call against each source
InitFetch ==
    ParserInit({<<>>}) /\ TokenInit({Absent, JInt(90)}) /\ FetchInit(PageCounts) /\ DagIdle
    /\ LoaderIdle
SpecFetch == InitFetch /\ [][FetchNext]_vars

\* fetch_transactions called with a page_size at or above the maximum on a
\* source of a few pages
InitOversize ==
    /\ ParserInit({<<>>}) /\ TokenInit({Absent, JInt(90)}) /\ DagIdle /\ LoaderIdle
    /\ FetchInitSized(1..SmallPages, OversizePageSizes)

SpecOversize == InitOversize /\ [][FetchNext]_vars

\* the call keeps running while it can
FairFetch == SpecFetch /\ WF_vars(FetchNext)

\* one run of the DAG in each environment, against a source of one page that
\* is empty or holds one record, fetched with the default page_size
InitDag ==
    /\ ParserIdle
    /\ TokenInit({Absent})
    /\ FetchInit({1})
    /\ page_size = DefaultPageSize
    /\ src_last_next = FALSE
    /\ DagInit(BOOLEAN, DagRecords)
    /\ LoaderIdle
SpecDag == InitDag /\ [][DagNext]_vars

\* the scheduler starts a task that stays runnable: cleanup_temp_files, once
\* its trigger rule is met, is runnable until it has run
\* The runs are those against a source whose records have a null
\* transaction_info, which the parser skips and the fallback transformation
\* fails on.
InitFairDag == InitDag /\ src_record = Txn(Null, PInfo, SInfo, CInfo)

FairDag == InitFairDag /\ [][DagNext]_vars /\ WF_vars(cleanup_temp_files)

\* parse_transactions on one record that keeps or breaks the business rules
InitRules ==
    /\ ParserInit({<<r>> : r \in RuleRecords})
    /\ TokenInit({Absent}) /\ FetchIdle /\ DagIdle /\ LoaderIdle
SpecRules == InitRules /\ [][ParserNext]_vars

\* parse_transactions and generate_statistics on batches of records of two
\* days and on the mock batch
InitRollup ==
    /\ ParserInit(SeqsUpTo(RollupRecords, MaxRollup) \cup {mock_batch(StartDate)})
    /\ TokenInit({Absent}) /\ FetchIdle /\ DagIdle /\ LoaderIdle
SpecRollup == InitRollup /\ [][ParserNext]_vars

\* parse_transactions on the mock batch of each day
InitMock ==
    /\ ParserInit({mock_batch(d) : d \in Dates})
    /\ TokenInit({Absent}) /\ FetchIdle /\ DagIdle /\ LoaderIdle
SpecMock == InitMock /\ [][ParserNext]_vars

\* the checks the sink may refuse for a reason of its own
Refusals == {"none"} \cup {CheckNames[i] : i \in 1..Len(CheckNames)}

\* one validate_data call on each table content, with and without a date
\* filter, every query answered or one of them refused
InitValidate ==
    /\ ParserIdle /\ TokenInit({Absent}) /\ FetchIdle /\ DagIdle
    /\ LoaderInit(SinkContents, DateFilters, Refusals)
SpecValidate == InitValidate /\ [][LoaderNext]_vars

(***************************************************************************)
(* Claims.                                                                 *)
(***************************************************************************)
\* the raw records that parse_transaction can normalize
Normalizable(transaction) == ~try_raises(transaction)

\* C1: parse_transactions never raises because of one record's content: when
\* it has gone through the batch, every record that cannot be normalized is a
\* ParseFailure and every other record is in the returned list.
C1_FailureIsolation ==
    /\ parse_pc # "raised"
    /\ parse_pc = "returned" =>
          /\ Len(parsed_transactions) =
                Cardinality({i \in 1..Len(raw_transactions) :
                                Normalizable(raw_transactions[i])})
          /\ Len(parsing_errors) =
                Cardinality({i \in 1..Len(raw_transactions) :
                                ~Normalizable(raw_transactions[i])})

\* C2: every emitted record has net_amount == amount - fee_amount (Python's
\* ==), whatever net value the raw record stated.
C2_NetAmount ==
    \A i \in 1..Len(parsed_transactions) :
        FEq(parsed_transactions[i].net_amount,
            FSub(parsed_transactions[i].amount, parsed_transactions[i].fee_amount))

\* what float() makes of an amount / fee slot that is a well-formed mapping
\* with a numeric value; every other slot content counts as missing, null or
\* non-numeric and is to give 0.0
NumericValue(slot) ==
    /\ IsMap(slot)
    /\ Get(slot, "value", Null).k \in {"num", "str"}
    /\ Get(slot, "value", Null).k = "str" =>
          float_of_str(Get(slot, "value", Null).s).k = "fin"

\* C3: a record whose four groups are well-formed mappings is normalized,
\* never a ParseFailure, whatever its amount, fee and date hold; an amount or
\* fee that is missing, null or non-numeric (or whose value is) gives 0.0 and
\* an unparseable date gives an absent field.
C3_SafeCoercion ==
    parse_pc = "returned" =>
        /\ parsing_errors = <<>>
        /\ Len(parsed_transactions) = Len(raw_transactions)
        /\ \A i \in 1..Len(parsed_transactions) :
              LET ti == raw_transactions[i].transaction_info
                  p == parsed_transactions[i]
              IN /\ ~NumericValue(ti.transaction_amount) => p.amount = Fin(0)
                 /\ ~NumericValue(ti.fee_amount) => p.fee_amount = Fin(0)
                 /\ ti.transaction_initiation_date \in
                        {Absent, Null, Str(""), Str("yesterday"), Num(500)}
                      => p.transaction_date = Null

(***************************************************************************)
(* fetch_transactions: pagination.                                         *)
(***************************************************************************)
\* the pages 1..k of the source, in order, as fetch_transactions keeps them
\* (an empty last page adds nothing)
Concatenation(k) ==
    [i \in 1..(IF src_short_len = 0 THEN k - 1 ELSE k) |->
        [page |-> i, n |-> page_content(i).n]]

\* every GET so far was answered 200 by a source of k - 1 full pages and a
\* short one, and no token exchange failed for good
AllAnswered200 == fetch_pc # "idle" /\ all_200

\* C4 (for every k): when every request is answered 200 and the source holds
\* k - 1 full pages followed by a short page, fetch_transactions requests
\* exactly the pages 1..k in that order, ends, and returns the concatenation
\* of the k pages -- for every k.
C4_PaginationAnyK ==
    AllAnswered200 =>
        /\ req_in_order
        /\ last_request <= src_pages
        /\ fetch_pc = "done" =>
              last_request = src_pages /\ all_transactions = Concatenation(src_pages)

\* C4 (up to the page ceiling): the same for every k up to 100 pages: the
\* requests are for the pages 1, 2, ... in order and never beyond page k (so
\* the call ends after at most k requests), and when the call has ended page
\* k was the last one requested and the result is the concatenation of the k
\* pages in request order.
C4_Pagination == src_pages <= max_pages => C4_PaginationAnyK

\* a call that fetched a source of three pages to its end
C4_Witness ==
    /\ AllAnswered200
    /\ fetch_pc = "done"
    /\ src_pages = 3
    /\ src_short_len = 1
    /\ last_request = 3
    /\ Len(all_transactions) = 3

\* C5: within one fetch call a 401/403 on page 1 makes page 1 be requested
\* again exactly once: after a second 401/403 on page 1 the call has ended
\* (with the records accumulated so far); a 401/403 on a later page ends it
\* at once.
C5_AuthRetryOnce ==
    /\ auth_p1 >= 2 => fetch_pc = "done"
    /\ (last_status \in {401, 403} /\ last_request > 1) => fetch_pc = "done"

\* C6: transient failures of a page fetch are retried a bounded number of
\* times and then surfaced; in particular the call ends when the server
\* answers 429 to every request: a call never ending has been given some
\* answer other than 429.
C6_RateLimitTerminates == <>(fetch_pc = "done" \/ last_status \notin {0, 429})

(***************************************************************************)
(* get_access_token: retries and the cache.                                *)
(***************************************************************************)
\* C7 (three attempts): one get_access_token call attempts the credential
\* exchange at most 3 times.
C7_AtMostThreeAttempts == exchanges <= 3

\* the waits before the second, third and fourth attempt
RetryDelays == <<5, 10, 20>>

\* C7 (four attempts): one get_access_token call attempts the credential exchange
\* at most 4 times (the first attempt and max_retries = 3 retries), waiting 5
\* seconds before the second attempt and doubling the wait before each
\* further one; every failed attempt but the fourth is retried, and when the
\* fourth fails its exception is raised to the caller unchanged.
C7_RetryPolicy ==
    /\ exchanges <= max_retries + 1
    /\ Len(slept) <= Len(RetryDelays)
    /\ slept = SubSeq(RetryDelays, 1, Len(slept))
    /\ tok_pc = "attempt" => Len(slept) = exchanges
    /\ tok_pc = "raised" =>
          /\ exchanges = max_retries + 1
          /\ slept = RetryDelays
          /\ last_exception = max_retries + 1
          /\ tok_result = last_exception

\* a call whose four attempts all failed
C7_Witness ==
    tok_pc = "raised" /\ exchanges = 4 /\ slept = <<5, 10, 20>> /\ tok_result = 4

\* the cached token's true expiry is more than 60 seconds away
Fresh ==
    /\ access_token # 0
    /\ (issue_time(access_token) + expires_in(srv_expires_in)) - now > SafetyMargin

\* C8: get_access_token returns the cached token without contacting the
\* token endpoint if and only if a token is cached and its true expiry (issue
\* time + expires_in) is more than 60 seconds in the future; otherwise it
\* performs a credential exchange and, when that succeeds, caches and returns
\* the new token.
C8_TokenCache ==
    [][tok_pc = "attempt" =>
          /\ Fresh =>
                /\ tok_pc' = "returned"
                /\ tok_result' = access_token
                /\ exchanges' = exchanges
                /\ access_token' = access_token
          /\ ~Fresh =>
                /\ exchanges' = exchanges + 1
                /\ tok_pc' = "returned" =>
                      /\ access_token' = issued_token(now)
                      /\ tok_result' = access_token'
                      /\ token_expires_at' + SafetyMargin =
                            now + expires_in(srv_expires_in)]_vars

\* a call at a later time answered from the cache
C8_Witness ==
    /\ tok_pc = "returned"
    /\ exchanges = 0
    /\ tok_result = access_token
    /\ access_token # 0
    /\ now > issue_time(access_token)

(***************************************************************************)
(* The DAG run: fallback and abort.                                        *)
(***************************************************************************)
\* the fetch of the run ended on a failure of the upstream source: the token
\* exchange failed on every attempt, or a page request was answered by an
\* error status or raised
UpstreamOutage == last_status \in {-2, -1, 401, 403, 500}

\* C9: whenever the upstream source is unavailable during extract, the
\* extract stage hands the mock batch to the transform stage, so
\* parse_transactions is never started on an empty batch because of an
\* upstream outage.
C9_FallbackOnOutage ==
    /\ (task_state["extract_data"] = "success" /\ UpstreamOutage) =>
          /\ extraction_results.data_source = "mock"
          /\ extraction_results.transaction_count = MockCount
    /\ (parse_pc = "ready" /\ UpstreamOutage) => raw_transactions # <<>>

\* C10: if parse_transactions yields zero usable records, the transform task
\* does not succeed and neither load_to_bq nor the completion notification
\* runs.
C10_AbortOnZero ==
    normalized_count = 0 =>
        /\ task_state["transform_data"] # "success"
        /\ task_state["load_to_bq"] \in {"none", "upstream_failed"}
        /\ task_state["send_completion_notification"] \in {"none", "upstream_failed"}
        /\ summary = NoResult


\* a validate_data call that is over
ValidateOver == val_pc \in {"returned", "raised"}

\* the score lies in [0, 100] / equals v
ScoreInBounds(score) == 0 <= score.num /\ score.num <= 100 * score.den
ScoreIs(score, v) == score.num = v * score.den

\* every row of the table has a non-null transaction_id of its own
AllUniqueNonNull == sink.total > 0 /\ sink.nulls = 0 /\ sink.distinct = sink.total

\* C12: whatever the table holds, a validate_data call whose queries the sink
\* answers returns a total_score between 0 and 100, and a total_score of 100
\* when every row has a non-null transaction_id distinct from all others
C12_ScoreBounds ==
    (ValidateOver /\ failing_check = "none") =>
        /\ val_pc = "returned"
        /\ ScoreInBounds(val_results["data_quality"].total_score)
        /\ AllUniqueNonNull => ScoreIs(val_results["data_quality"].total_score, 100)

\* the scenario of C13: no date filter, no rows, no query refused by the sink
EmptyUnfiltered == ~Truthy(date_filter) /\ sink.total = 0 /\ failing_check = "none"

\* C13: validate_data called without a date filter on a table of zero rows
\* does not raise and returns completeness, uniqueness and total_score 0
C13_EmptySink ==
    EmptyUnfiltered =>
        /\ val_pc # "raised"
        /\ val_pc = "returned" =>
              /\ ScoreIs(val_results["data_quality"].completeness_score, 0)
              /\ ScoreIs(val_results["data_quality"].uniqueness_score, 0)
              /\ ScoreIs(val_results["data_quality"].total_score, 0)

\* the call of C13 has returned; its null_transaction_ids check had failed
C13_Witness ==
    /\ EmptyUnfiltered
    /\ val_pc = "returned"
    /\ val_results["null_transaction_ids"] = CheckError
    /\ "data_quality" \in DOMAIN val_results

\* C14: when the query of one check raises, validate_data does not raise: it
\* returns results that hold the error under that check's name, a result for
\* every other check and the scores
C14_CheckIsolation ==
    (ValidateOver /\ failing_check # "none") =>
        /\ val_pc = "returned"
        /\ val_results[failing_check] = CheckError
        /\ \A i \in 1..Len(CheckNames) : CheckNames[i] \in DOMAIN val_results
        /\ "data_quality" \in DOMAIN val_results


\* a step of the loader raised: load_to_bigquery reported the mock results
LoadDegraded == load_results.k = "results" /\ load_results.state = "MOCK"

\* C11: when a step of the sink load fails, the load task still succeeds, its
\* output_rows is the number of lines of the parsed file, and the quality
\* check and the notification are not given up: each is runnable until it
\* has run, and the notification reports the same number of rows
C11_DegradedLoad ==
    /\ task_state["load_to_bq"] \notin {"failed", "up_for_retry"}
    /\ LoadDegraded =>
          /\ task_state["load_to_bq"] = "success"
          /\ load_results.output_rows = transformation_results.transaction_count
          /\ parsed_file.k = "file" => load_results.output_rows = parsed_file.rows
          /\ \A t \in {"data_quality_check", "send_completion_notification"} :
                task_state[t] \in {"none", "success"}
          /\ task_state["data_quality_check"] = "none" => runnable("data_quality_check")
          /\ (/\ task_state["data_quality_check"] = "success"
              /\ task_state["send_completion_notification"] = "none")
                 => runnable("send_completion_notification")
          /\ summary.k = "summary" => summary.loaded_rows = load_results.output_rows

\* a run whose load was degraded, on a parsed file with rows, has sent its
\* notification
C11_Witness ==
    /\ LoadDegraded
    /\ load_results.output_rows > 0
    /\ task_state["send_completion_notification"] = "success"
    /\ summary.k = "summary"


\* the day whose mock batch the parser was given
MockDay(d) == raw_transactions = mock_batch(d)

\* C15: for every day d, parse_transactions on the 25 mock records generated
\* for d records no failure and returns 25 records with pairwise distinct
\* transaction_ids, each with a transaction_date on day d
C15_FallbackShape ==
    \A d \in Dates :
        MockDay(d) =>
            /\ parse_pc # "raised"
            /\ parsing_errors = <<>>
            /\ parse_pc = "returned" =>
                  /\ Len(parsed_transactions) = MockCount
                  /\ \A i, j \in 1..MockCount :
                        i # j => parsed_transactions[i].transaction_id #
                                 parsed_transactions[j].transaction_id
                  /\ \A i \in 1..MockCount :
                        \E h \in Hours :
                            parsed_transactions[i].transaction_date =
                                Str(d \o " " \o two(h) \o ":30:00 UTC")

\* the mock batch of a leap day has been parsed
C15_Witness ==
    /\ MockDay("2024-02-29")
    /\ parse_pc = "returned"
    /\ Len(parsed_transactions) = MockCount

\* C16: the i-th mock record is normalized with amount i * 12.50 and a fee of
\* exactly 2% of that amount, so that the first has net_amount 12.50 - 0.25
C16_FallbackAmounts ==
    (\E d \in Dates : MockDay(d)) =>
        \A i \in 1..Len(parsed_transactions) :
            /\ parsed_transactions[i].amount = Fin(i * 1250)
            /\ parsed_transactions[i].fee_amount.k = "fin"
            /\ 100 * parsed_transactions[i].fee_amount.c = 2 * (i * 1250)
            /\ i = 1 => parsed_transactions[i].net_amount = Fin(1250 - 25)


\* the minute of the time line at which half hour h of day d begins at a UTC
\* offset
instant(d, h, off) == (day_number(d) * 24 + h) * 60 + 30 - offset_minutes(off)

\* the ISO-8601 inputs, and the instant each denotes
IsoInput(v) ==
    /\ IsStr(v)
    /\ \/ \E d \in Dates, h \in Hours, off \in Offsets : v.s = iso(d, h, off)
       \/ v.s = "2025-07-30T10:30:00Z"
input_instant(v) ==
    IF v.s = "2025-07-30T10:30:00Z" THEN instant("2025-07-30", 10, "+00:00")
    ELSE LET f == CHOOSE f \in Dates \X Hours \X Offsets : v.s = iso(f[1], f[2], f[3])
         IN instant(f[1], f[2], f[3])

\* the instant a normalized date denotes: its fields are read as UTC
IsUtcOutput(v) ==
    IsStr(v) /\ \E d \in Dates, h \in Hours : v.s = d \o " " \o two(h) \o ":30:00 UTC"
output_instant(v) ==
    LET f == CHOOSE f \in Dates \X Hours : v.s = f[1] \o " " \o two(f[2]) \o ":30:00 UTC"
    IN instant(f[1], f[2], "+00:00")

\* the raw transaction_initiation_date of the batch's only record
RawDate == raw_transactions[1].transaction_info.transaction_initiation_date

\* C17: the transaction_date of an emitted record denotes, in UTC, the instant
\* of the raw ISO-8601 date whatever its offset; it is absent when the raw
\* date is empty or cannot be parsed, and such a date does not keep a record
\* from being emitted
C17_TimestampUTC ==
    /\ \A i \in 1..Len(parsed_transactions) :
          IF IsoInput(RawDate)
          THEN /\ IsUtcOutput(parsed_transactions[i].transaction_date)
               /\ output_instant(parsed_transactions[i].transaction_date) =
                     input_instant(RawDate)
          ELSE parsed_transactions[i].transaction_date = Null
    /\ (/\ parse_pc = "returned"
        /\ Len(raw_transactions) = 1
        /\ Normalizable([raw_transactions[1] EXCEPT
                            !.transaction_info.transaction_initiation_date = GoodDate]))
          => Len(parsed_transactions) = 1


\* a group that is missing: absent or null
Missing(g) == g \in {Absent, Null}

\* the batch's first record is a mapping with a missing group, its other
\* groups being the well-formed ones
FirstMissesGroup ==
    /\ Len(raw_transactions) >= 1
    /\ IsMap(raw_transactions[1])
    /\ LET r == raw_transactions[1]
       IN /\ Missing(r.transaction_info) \/ Missing(r.payer_info)
             \/ Missing(r.shipping_info) \/ Missing(r.cart_info)
          /\ Missing(r.transaction_info) \/ r.transaction_info \in {GoodTInfo(id) : id \in {"T3", "T4", "T5"}}
          /\ Missing(r.payer_info) \/ r.payer_info = PInfo
          /\ Missing(r.shipping_info) \/ r.shipping_info = SInfo
          /\ Missing(r.cart_info) \/ r.cart_info = CInfo

\* C18: a record with a missing group (absent or null) is normalized with no
\* ParseFailure and no exception: once the loop has passed it, it is in the
\* list with the empty defaults for the fields of the missing group
C18_MissingGroups ==
    FirstMissesGroup =>
        /\ parse_pc # "raised"
        /\ (parse_pc = "parsing" /\ parse_i = 2) =>
              /\ parsing_errors = <<>>
              /\ Len(parsed_transactions) = 1
              /\ LET r == raw_transactions[1]
                     p == parsed_transactions[1]
                 IN /\ Missing(r.transaction_info) => p.transaction_id = Str("")
                    /\ Missing(r.payer_info) =>
                          p.payer_email = Str("") /\ p.payer_name = Str("")
                    /\ Missing(r.shipping_info) => p.shipping_method = Str("")
                    /\ Missing(r.cart_info) => p.item_count = 0 /\ p.items = <<>>


\* the business rules a raw record of RuleRecords violates; a field that is
\* empty counts as not present
ViolatesRule(r) ==
    LET info == r.transaction_info
        currency == info.transaction_amount.currency_code
    IN \/ info.transaction_id = Str("")
       \/ info.transaction_amount.value = Str("-5.00")
       \/ Truthy(info.transaction_status) /\ info.transaction_status.s \notin ValidStatuses
       \/ Truthy(currency) /\ ~(IsStr(currency) /\ Len(currency.s) = 3)

\* C19: a record that violates business rules is still emitted, never as a
\* ParseFailure, and a ValidationFinding is recorded for a record exactly
\* when it violates a rule
C19_ValidationNotFatal ==
    (raw_transactions \in {<<r>> : r \in RuleRecords}) =>
        /\ parse_pc # "raised"
        /\ parsing_errors = <<>>
        /\ parse_pc = "returned" =>
              /\ Len(parsed_transactions) = 1
              /\ (validation_errors # <<>>) <=> ViolatesRule(raw_transactions[1])


\* C20: the statistics generate_statistics returns hold a success rate, the
\* percentage normalized / (normalized + failures), and 0 when both counts
\* are zero
C20_SuccessRate ==
    statistics # NoStatistics =>
        LET normalized == Len(parsed_transactions)
            failures == Len(parsing_errors)
        IN /\ statistics.k = "stats"
           /\ IF normalized + failures = 0
              THEN ScoreIs(statistics.success_rate, 0)
              ELSE statistics.success_rate.num * (normalized + failures) =
                      100 * normalized * statistics.success_rate.den


\* the records parse_transaction emits for the first n raw records, in order
RECURSIVE EmittedUpTo(_)
EmittedUpTo(n) ==
    IF n = 0 THEN <<>>
    ELSE IF parse_transaction(raw_transactions[n]).out = "ok"
         THEN Append(EmittedUpTo(n - 1), parse_transaction(raw_transactions[n]).parsed)
         ELSE EmittedUpTo(n - 1)

\* C25: in one parse_transactions call on a fresh parser every raw record ends
\* either in the returned list or in parsing_errors: the call does not raise,
\* and when it returns the two lengths add up to the number of raw records
\* and the returned records are the normalized records in input order
C25_ExclusiveTerminalStates ==
    /\ parse_pc # "raised"
    /\ parse_pc = "returned" =>
          /\ Len(parsed_transactions) + Len(parsing_errors) = Len(raw_transactions)
          /\ parsed_transactions = EmittedUpTo(Len(raw_transactions))


\* the normalized records with a transaction_date on day d, and the sum of
\* one of their fields
OnDay(d) ==
    {i \in 1..Len(parsed_transactions) :
        /\ parsed_transactions[i].transaction_date # Null
        /\ date_key(parsed_transactions[i].transaction_date.s) = d}
RECURSIVE DaySum(_, _, _)
DaySum(d, field, n) ==
    IF n = 0 THEN Fin(0)
    ELSE IF n \in OnDay(d)
         THEN FAdd(DaySum(d, field, n - 1), parsed_transactions[n][field])
         ELSE DaySum(d, field, n - 1)
RECURSIVE CountSum(_, _)
CountSum(days, keys) ==
    IF keys = <<>> THEN 0 ELSE days[Head(keys)].count + CountSum(days, Tail(keys))

\* C28: the daily rollup of the statistics is keyed by the date portion of
\* transaction_date in ascending order; each day's count and totals are the
\* sums over the records of that day; the counts add up to the number of
\* records that have a transaction_date; the mock batch of one date gives one
\* key with count 25
C28_DailyRollup ==
    statistics.k = "stats" =>
        LET keys == statistics.daily_summary.keys
            days == statistics.daily_summary.days
            n == Len(parsed_transactions)
        IN /\ \A i, j \in DOMAIN keys : i < j => day_number(keys[i]) < day_number(keys[j])
           /\ {keys[i] : i \in DOMAIN keys} = DOMAIN days
           /\ DOMAIN days = {d \in Dates : OnDay(d) # {}}
           /\ \A d \in DOMAIN days :
                 /\ days[d].count = Cardinality(OnDay(d))
                 /\ days[d].total_amount = DaySum(d, "amount", n)
                 /\ days[d].total_fee = DaySum(d, "fee_amount", n)
                 /\ days[d].net_amount = DaySum(d, "net_amount", n)
           /\ CountSum(days, keys) =
                 Cardinality({i \in 1..n : parsed_transactions[i].transaction_date # Null})
           /\ raw_transactions = mock_batch(StartDate) =>
                 keys = <<StartDate>> /\ days[StartDate].count = MockCount

\* the rollup of a batch whose first record is of the later day: two keys,
\* two records on one of the days
C28_Witness ==
    /\ statistics.k = "stats"
    /\ Len(statistics.daily_summary.keys) = 2
    /\ parsed_transactions[1].transaction_date = Str("2025-07-30 10:30:00 UTC")
    /\ statistics.daily_summary.days["2025-07-30"].count = 2
    /\ statistics.daily_summary.days["2024-02-29"].total_amount = Fin(2500)


\* the records of the pages 1..k as fetch_transactions accumulates them
PagesUpTo(k) == [i \in 1..k |-> [page |-> i, n |-> page_content(i).n]]

\* the call ended on an exception (of the token exchange, of the GET, or of
\* the reading of the answer) or on an unexpected status, while on page `page`
EndedOnError == fetch_pc = "done" /\ last_status \in {-3, -2, -1, 500}

\* C24 (pages before p): when an exception or a status other than 200, 429,
\* 401 and 403 occurs while fetching page p, the call ends and returns exactly
\* the records of the pages 1..p-1 in order
C24_PartialBeforePage == EndedOnError => all_transactions = PagesUpTo(page - 1)

\* C24 (accumulated so far): the call ends and returns the records accumulated
\* so far, in order: those of the pages 1..p-1, and those of page p as well
\* when the exception was raised after the records of page p were appended
C24_PartialSuccess ==
    EndedOnError =>
        \/ all_transactions = PagesUpTo(page - 1)
        \/ /\ last_status = -3
           /\ page_content(page).n > 0
           /\ all_transactions = PagesUpTo(page)

\* a call that failed on page 2 after it had accumulated page 1
C24_Witness ==
    /\ EndedOnError
    /\ last_status = -1
    /\ page = 2
    /\ all_transactions = PagesUpTo(1)


\* C26: after a 429 answer to the request for page p the loop goes round again
\* whatever p is, the page to request is again p and the accumulator still
\* holds the pages before p: a 429 uses up none of the 100 pages
C26_RateLimitKeepsPage ==
    last_status = 429 =>
        /\ fetch_pc = "token"
        /\ page = last_request
        /\ all_transactions = PagesUpTo(page - 1)

\* the request for the last page the ceiling allows was answered 429
C26_Witness ==
    /\ last_status = 429
    /\ last_request = max_pages
    /\ fetch_pc = "token"
    /\ Len(all_transactions) = max_pages - 1

\* C27: whatever the server answers, no page beyond 100 is requested, the
\* page to request next is the one requested last or the one after it, and
\* the result holds the records of at most 100 pages
C27_PageCeiling ==
    /\ last_request <= max_pages
    /\ Len(all_transactions) <= max_pages
    /\ fetch_pc = "token" => page \in {last_request, last_request + 1} /\ page <= max_pages

\* a call on a source of 101 pages has ended after page 100
C27_Witness ==
    /\ fetch_pc = "done"
    /\ src_pages = max_pages + 1
    /\ last_request = max_pages
    /\ Len(all_transactions) = max_pages


\* C29: a call has not ended on a 200 answer that was a full page with a next
\* link unless that page was the hundredth; a full page has as many records
\* as were asked of the source, min(page_size, 500)
C29_OversizeContinues ==
    (/\ fetch_pc = "done"
     /\ last_status = 200
     /\ last_request < src_pages
     /\ page_content(last_request).n = sent_page_size(page_size))
        => last_request = max_pages


\* two percentages are the same number
SameScore(a, b) == a.num * b.den = b.num * a.den

\* C21: the summary of a run whose load fell back to the mock results shows
\* it (its status is not that of a successful run), and the quality score it
\* reports is the one validate_data computes from the sink
C21_FailuresSurfaced ==
    summary.k = "summary" =>
        /\ LoadDegraded => summary.status # "SUCCESS"
        /\ SameScore(summary.data_quality_score, validation_results(sink).total_score)


\* C30: a quality check that has run, which it does only after the load,
\* counted the rows of the file the transformation wrote
C30_NoCleanupRace ==
    task_state["data_quality_check"] = "success" =>
        /\ task_state["load_to_bq"] = "success"
        /\ quality_check_rows = transformation_results.transaction_count


\* extract_data, transform_data and load_to_bq have each succeeded, failed
\* or been given up because an upstream task failed
StagesFinished ==
    \A t \in {"extract_data", "transform_data", "load_to_bq"} : task_state[t] \in Finished

\* C23: once the extract, transform and load tasks have each finished,
\* whatever their outcome, cleanup_temp_files eventually runs
C23_CleanupAlwaysRuns == StagesFinished ~> task_state["cleanup_temp_files"] = "success"

\* cleanup has run in a run whose transformation failed and whose load was
\* given up
C23_Witness ==
    /\ task_state["transform_data"] = "failed"
    /\ task_state["load_to_bq"] = "upstream_failed"
    /\ task_state["cleanup_temp_files"] = "success"
    /\ parsed_file = NoFile


\* C22: however often the load stage has run for the date window, the sink
\* holds the rows it holds after one run: nothing if no load job went
\* through, the rows of the batch once if one did
C22_IdempotentLoad == sink.total \in {0, transformation_results.transaction_count}

=============================================================================
